---- MODULE Spec2Model ----
(***************************************************************************)
(* A model of the reactive core of wexley: the avatar emotion debouncer    *)
(* (useAvatarStore.setEmotion), the voice-activity recording gates of the  *)
(* chat component and of the realtime store, and the pitch stabiliser of   *)
(* the audio processor, together with the pure analysis functions of the   *)
(* music analyzer and the music companion, the directive parser and the    *)
(* streaming conversation of the realtime store.  Times are in             *)
(* milliseconds, as in the source.                                         *)
(***************************************************************************)
EXTENDS Integers, Sequences, FiniteSets, TLC

VARIABLES
    now,                \* the clock read by Date.now() / performance.now()
    \* ---- useAvatarStore (emotion debouncing state)
    emotion,            \* AvatarState.emotion
    lastEmotionChange,  \* timestamp of the last applied setEmotion, 0 = never
    pendingEmotion,     \* the pending slot, NULL when empty
    emotionTimeout,     \* the handle kept in the store, NoTimer when null
    timers,             \* the setTimeout callbacks of setEmotion still outstanding
    \* ---- useAudioStore / component lifetime
    isRecording,        \* useAudioStore.isRecording (audioStream is set with it)
    mounted,            \* the chat component and its hooks are mounted
    \* ---- history of the emotion machine (not program state)
    eop,                \* the last step of the emotion machine
    lastVisibleChange,  \* time the value of emotion last changed, 0 = never
    extForceUsed,       \* some caller outside the store passed force = true
    deferred,           \* the first and the latest candidate deferred since the
                        \* last applied transition
    \* ---- useAudioStore.currentAnalysis and the RealtimeChat component
    currentAnalysis,    \* the volume (in hundredths) of the latest analysis snapshot
    chat,               \* the refs and state of RealtimeChat's voice-activity gate
    \* ---- history of the chat gate (not program state)
    gop,                \* the last step of the chat gate
    ghist,              \* counts and times kept for the claims
    \* ---- useRealtimeStore: the closure of connect() and its recorder
    rs,
    \* ---- createAudioProcessor: the pitch smoothing state
    proc,
    phist,              \* history of the pitch stabiliser (not program state)
    loop,               \* the animation-frame loop of processAudio
    lhist,              \* history of the loop (not program state)
    \* ---- the analysis functions and the store's calls: the last call, its result
    calc

evars == <<emotion, lastEmotionChange, pendingEmotion, emotionTimeout, timers>>
ehist == <<eop, lastVisibleChange, extForceUsed, deferred>>
gvars == <<currentAnalysis, chat, gop, ghist>>
ovars == <<rs, proc, phist, loop, lhist, calc>>
vars == <<now, emotion, lastEmotionChange, pendingEmotion, emotionTimeout, timers,
          isRecording, mounted, eop, lastVisibleChange, extForceUsed, deferred,
          currentAnalysis, chat, gop, ghist, rs, proc, phist, loop, lhist, calc>>

----------------------------------------------------------------------------
(* Bounds of the model *)
TickMs == 500            \* granularity with which the clock advances
MaxTime == 7000          \* the clock stops advancing here (emotion machine)
GateMaxTime == 6500      \* the same for the chat gate
MaxRecorders == 2        \* MediaRecorder objects created in one run
MaxSegments == 2         \* recordings started by the realtime store
MaxArrivals == 7         \* non-zero pitch estimates between two resets
FrameMs == 50            \* time between two animation frames
LoopMaxTime == 1000      \* the clock stops advancing here (analysis loop)
MaxCalls == 6            \* pitch estimates pushed by analyzeVoice in one run
MaxRequests == 2         \* sendToOpenAI calls in one run
MaxChunks == 3           \* pieces of text in one streamed response

(* Program constants *)
MIN_EMOTION_DURATION == 3000
SILENCE_MS == 4000       \* "Stop after 4 seconds of silence"
voiceThreshold == 15     \* 0.15, volumes are in hundredths
STORE_SILENCE_MS == 1500 \* "Stop after 1.5 seconds of silence"
storeVoiceThreshold == 25
PITCH_WINDOW == 5        \* "Keep only last 5 pitch values for smoothing"
UPDATE_INTERVAL_MS == 100 \* "100ms = 10 FPS"
chordThreshold == 3      \* 0.3, chroma energies are in tenths
MAX_BUFFER_SIZE == 16384
MAX_AUDIO_LENGTH == 16384
maxHistoryLength == 50

NULL == "null"
NoTimer == 0
NoDeferred == [first |-> NULL, last |-> NULL]

\* The record of a step kept in eop: the call's arguments and what the step read.
Op(name, em, force, since, first, rec) ==
    [name |-> name, em |-> em, force |-> force, since |-> since, first |-> first,
     rec |-> rec]
Quiet(name) == Op(name, NULL, FALSE, 0, NULL, FALSE)

CompanionEmotion ==
    {"neutral", "excited", "listening", "thinking", "dancing", "suggesting",
     "speaking", "processing", "understanding", "empathetic", "curious",
     "helpful", "encouraging", "celebrating", "concerned", "focused"}

\* The candidates the environment requests in the model (a subset of the type).
RequestedEmotions == {"neutral", "listening", "excited", "curious"}

----------------------------------------------------------------------------
(* useAvatarStore.setEmotion *)

C29_mut_ClearTimeout(tms, handle) == tms
\* clearTimeout(handle): a no-op for null and for a timer that already fired.
ClearTimeout(tms, handle) == {t \in tms : t.id # handle}

\* setTimeout returns a handle no outstanding timer has.
FreshTimer(tms) ==
    CHOOSE i \in 1..(Cardinality(tms) + 1) : \A t \in tms : t.id # i

C1_mut_CanApplyNow(timeSinceLastChange, force, last) == TRUE
C4_mut_CanApplyNow(timeSinceLastChange, force, last) ==
    timeSinceLastChange > MIN_EMOTION_DURATION \/ force \/ last = 0
\* "If enough time has passed or this is a force update, change immediately"
CanApplyNow(timeSinceLastChange, force, last) ==
    timeSinceLastChange >= MIN_EMOTION_DURATION \/ force \/ last = 0

C23_mut_SameEmotionNoOp(cur, em, force) == FALSE
\* "If same emotion, do nothing"
SameEmotionNoOp(cur, em, force) == cur = em /\ ~force

\* A return is scheduled for every emotion but 'listening' and 'neutral'.
NeedsReturn(em) == em # "listening" /\ em # "neutral"

C2_mut_PendingSlot(old, em) == IF old = NULL THEN em ELSE old
\* set({ pendingEmotion: emotion }): the slot holds the latest candidate.
PendingSlot(old, em) == em

C5_mut_ReturnTarget(t, recNow) == IF t.rec THEN "listening" ELSE "neutral"
\* The return callback reads isRecording when it runs. t.rec, the value of the
\* flag when the timer was scheduled, is history the callback does not read.
ReturnTarget(t, recNow) == IF recNow THEN "listening" ELSE "neutral"

\* setEmotion(em, force), run with tms the timers outstanding at the call.
SetEmotion(em, force, tms) ==
    LET timeSinceLastChange == now - lastEmotionChange
        live == ClearTimeout(tms, emotionTimeout)
        id == FreshTimer(live)
    IN  IF SameEmotionNoOp(emotion, em, force)
        THEN /\ timers' = tms
             /\ UNCHANGED <<emotion, lastEmotionChange, pendingEmotion, emotionTimeout>>
             /\ UNCHANGED <<lastVisibleChange, deferred>>
        ELSE IF CanApplyNow(timeSinceLastChange, force, lastEmotionChange)
        THEN /\ emotion' = em
             /\ lastEmotionChange' = now
             /\ pendingEmotion' = NULL
             /\ IF NeedsReturn(em)
                THEN /\ timers' = live \cup
                            {[id |-> id, kind |-> "return", emotion |-> NULL,
                              due |-> now + MIN_EMOTION_DURATION, rec |-> isRecording]}
                     /\ emotionTimeout' = id
                ELSE /\ timers' = live
                     /\ emotionTimeout' = NoTimer
             /\ lastVisibleChange' = IF em # emotion THEN now ELSE lastVisibleChange
             /\ deferred' = NoDeferred
        ELSE /\ pendingEmotion' = PendingSlot(pendingEmotion, em)
             /\ timers' = live \cup
                    {[id |-> id, kind |-> "pending", emotion |-> em,
                      due |-> now + (MIN_EMOTION_DURATION - timeSinceLastChange),
                      rec |-> isRecording]}
             /\ emotionTimeout' = id
             /\ UNCHANGED <<emotion, lastEmotionChange, lastVisibleChange>>
             /\ deferred' = [first |-> IF deferred.first = NULL THEN em ELSE deferred.first,
                              last |-> em]

\* A caller (reactToUserInput, reactToAIResponse, analyzeResponseEmotion, the
\* page effect, ...) calls setEmotion(em, force).
Request(em, force) ==
    /\ mounted
    /\ SetEmotion(em, force, timers)
    /\ eop' = Op("Request", em, force, now - lastEmotionChange, NULL, FALSE)
    /\ extForceUsed' = (extForceUsed \/ force)
    /\ UNCHANGED <<ovars, now, isRecording, mounted, gvars>>

\* The callback of the deferred branch: applies its candidate with force when
\* the pending slot still holds it.
PendingFire(t) ==
    /\ t \in timers /\ t.kind = "pending" /\ t.due <= now
    /\ IF pendingEmotion = t.emotion
       THEN SetEmotion(t.emotion, TRUE, timers \ {t})
       ELSE /\ timers' = timers \ {t}
            /\ UNCHANGED <<emotion, lastEmotionChange, pendingEmotion, emotionTimeout>>
            /\ UNCHANGED <<lastVisibleChange, deferred>>
    /\ eop' = Op("PendingFire", t.emotion, TRUE, now - lastEmotionChange, deferred.first, FALSE)
    /\ UNCHANGED <<ovars, now, isRecording, mounted, extForceUsed, gvars>>

\* The return callback: import('./audioStore').then(...) reads isRecording and
\* forces 'listening' or 'neutral'.  The continuation runs in the microtask
\* checkpoint of the timer task (the module is already loaded), so no other
\* task runs between the timer firing and the forced setEmotion.
ReturnFire(t) ==
    /\ t \in timers /\ t.kind = "return" /\ t.due <= now
    /\ SetEmotion(ReturnTarget(t, isRecording), TRUE, timers \ {t})
    /\ eop' = Op("ReturnFire", NULL, TRUE, now - lastEmotionChange, NULL, t.rec)
    /\ UNCHANGED <<ovars, now, isRecording, mounted, extForceUsed, gvars>>

----------------------------------------------------------------------------
(* RealtimeChat: the voice-activity gate.  `c` is the component's refs and   *)
(* state, `t` the time of the call.                                          *)

NoAnalysis == -1
NoRecorder == [id |-> 0, state |-> "none", from |-> 0]

\* How a step of the gate is recorded in gop.
GOp(name, v, resume, handoff, segment, resumedAt) ==
    [name |-> name, v |-> v, resume |-> resume, handoff |-> handoff,
     segment |-> segment, resumedAt |-> resumedAt]
GQuiet(name) == GOp(name, NoAnalysis, FALSE, FALSE, <<>>, 0)

\* if (silenceTimerRef.current) { clearTimeout(...); silenceTimerRef.current = null }
ClearSilenceTimer(c) ==
    [c EXCEPT !.timers = {x \in @ : x.id # c.silenceTimerRef},
              !.silenceTimerRef = NoTimer]

\* startVoiceRecording: a new MediaRecorder, an empty chunk buffer.
startVoiceRecording(c, audioStream, t) ==
    IF ~audioStream \/ c.isRecordingVoiceRef
    THEN c
    ELSE ClearSilenceTimer(
            [c EXCEPT !.recorderCount = @ + 1,
                      !.mediaRecorderRef =
                          [id |-> c.recorderCount + 1, state |-> "recording", from |-> t],
                      !.recordingChunksRef = <<>>,
                      !.isRecordingVoiceRef = TRUE])

\* MediaRecorder.stop(): a recording recorder becomes inactive and its
\* dataavailable and stop events are queued; on an inactive recorder nothing
\* is queued.
MediaRecorderStop(c, t) ==
    IF c.mediaRecorderRef.state = "recording"
    THEN [c EXCEPT !.mediaRecorderRef.state = "inactive",
                   !.stopEvents = Append(@, [rec |-> c.mediaRecorderRef.id,
                                             from |-> c.mediaRecorderRef.from,
                                             size |-> IF t > c.mediaRecorderRef.from
                                                      THEN 1 ELSE 0])]
    ELSE c

\* stop() is about to be called on a recorder that is not recording.
StopsInactive(c) ==
    /\ c.mediaRecorderRef # NoRecorder
    /\ c.isRecordingVoiceRef
    /\ c.mediaRecorderRef.state # "recording"

\* stopVoiceRecording.  stop() on an inactive recorder throws InvalidStateError
\* in some browsers and returns silently in others (`throws`); when it throws
\* the rest of the function is skipped.
stopVoiceRecording(c, t, throws) ==
    LET c1 == IF c.mediaRecorderRef # NoRecorder /\ c.isRecordingVoiceRef
              THEN MediaRecorderStop(c, t)
              ELSE c
    IN  IF StopsInactive(c) /\ throws THEN c1 ELSE ClearSilenceTimer(c1)

\* "Start silence timer": only when none is referenced.
StartSilenceTimer(c, t) ==
    IF c.silenceTimerRef = NoTimer
    THEN LET id == FreshTimer(c.timers)
         IN  [c EXCEPT !.timers = @ \cup {[id |-> id, due |-> t + SILENCE_MS]},
                       !.silenceTimerRef = id]
    ELSE c

C3_mut_ResumeFromSilence(c, audioStream, t) == c
C8_mut_ResumeFromSilence(c, audioStream, t) ==
    startVoiceRecording([c EXCEPT !.isRecordingVoiceRef = FALSE], audioStream, t)
\* "Cancel silence timer if voice detected again"
ResumeFromSilence(c, audioStream, t) == ClearSilenceTimer(c)

\* The voice-activity effect, run with analysis `ca` and the store's isRecording
\* (audioStream is set and cleared together with it).
VoiceActivityEffect(c, ca, isRec, t) ==
    IF ca = NoAnalysis \/ ~isRec \/ c.isProcessingVoice
    THEN c
    ELSE LET isVoiceDetected == ca > voiceThreshold
         IN  IF isVoiceDetected /\ ~c.isRecordingVoiceRef /\ isRec /\ ~c.isProcessingVoice
             THEN startVoiceRecording(c, isRec, t)
             ELSE IF ~isVoiceDetected /\ c.isRecordingVoiceRef
             THEN StartSilenceTimer(c, t)
             ELSE IF isVoiceDetected /\ c.isRecordingVoiceRef
                     /\ c.silenceTimerRef # NoTimer
             THEN ResumeFromSilence(c, isRec, t)
             ELSE c

\* The effect runs only while the component is mounted.
RunEffect(c, ca, isRec, t) == IF mounted THEN VoiceActivityEffect(c, ca, isRec, t) ELSE c

\* The gate's states as the spec names them.
GateIdle(c) == ~c.isRecordingVoiceRef
GateCoolingDown(c) ==
    /\ c.isRecordingVoiceRef
    /\ c.mediaRecorderRef.state = "recording"
    /\ \E x \in c.timers : x.id = c.silenceTimerRef
GateActive(c) ==
    /\ c.isRecordingVoiceRef
    /\ c.mediaRecorderRef.state = "recording"
    /\ ~GateCoolingDown(c)

\* What the history keeps of a run of the effect that took the gate from c0 to
\* c1 on volume ca: when voice was last seen, and when the running segment
\* was last resumed from its pause.
Observed(h, c0, c1, ca) ==
    [h EXCEPT !.lastHigh = IF ca > voiceThreshold THEN now ELSE @,
              !.resumedAt = IF c1.recorderCount # c0.recorderCount THEN 0
                            ELSE IF GateCoolingDown(c0) /\ GateActive(c1) THEN now
                            ELSE @]

\* The processor delivers an analysis snapshot with volume v; the effect runs.
Sample(v) ==
    /\ mounted /\ isRecording
    /\ LET c1 == RunEffect(chat, v, isRecording, now)
       IN  /\ c1.recorderCount <= MaxRecorders
           /\ chat' = c1
           /\ gop' = GOp("Sample", v,
                         GateCoolingDown(chat) /\ v > voiceThreshold, FALSE, <<>>, 0)
           /\ ghist' = Observed(ghist, chat, c1, v)
    /\ currentAnalysis' = v
    /\ eop' = Quiet("env")
    /\ UNCHANGED <<ovars, now, isRecording, mounted, evars, lastVisibleChange, extForceUsed,
                   deferred>>

\* The silence timer's callback.
SilenceFire(x, throws) ==
    /\ x \in chat.timers /\ x.due <= now
    /\ LET c0 == [chat EXCEPT !.timers = @ \ {x}]
       IN  /\ (throws => c0.isRecordingVoiceRef /\ StopsInactive(c0))
           /\ chat' = IF c0.isRecordingVoiceRef
                      THEN stopVoiceRecording(c0, now, throws)
                      ELSE c0
           /\ gop' = GOp("SilenceFire", NoAnalysis, FALSE, FALSE, <<>>, ghist.resumedAt)
           /\ ghist' = [ghist EXCEPT
                  !.badStop = @ \/ (c0.isRecordingVoiceRef /\ StopsInactive(c0)),
                  !.boundaries = @ + (IF c0.isRecordingVoiceRef
                                         /\ c0.mediaRecorderRef.state = "recording"
                                      THEN 1 ELSE 0)]
    /\ eop' = Quiet("env")
    /\ UNCHANGED <<ovars, now, isRecording, mounted, currentAnalysis, evars, lastVisibleChange,
                   extForceUsed, deferred>>

\* The recorder's dataavailable and stop events: a non-empty blob is pushed to
\* the chunk buffer; onstop hands the buffer to processVoiceRecording, which
\* sets isProcessingVoice, or resets isRecordingVoiceRef when there are no chunks.
RecorderStopped ==
    /\ Len(chat.stopEvents) > 0
    /\ LET ev == Head(chat.stopEvents)
           chunks == IF ev.size > 0
                     THEN Append(chat.recordingChunksRef, [rec |-> ev.rec, from |-> ev.from])
                     ELSE chat.recordingChunksRef
           c1 == [chat EXCEPT !.stopEvents = Tail(@), !.recordingChunksRef = chunks]
       IN  IF Len(chunks) > 0
           THEN /\ chat' = [c1 EXCEPT !.isProcessingVoice = TRUE, !.inFlight = @ + 1]
                /\ gop' = GOp("RecorderStopped", NoAnalysis, FALSE, TRUE, chunks,
                              ghist.resumedAt)
                /\ ghist' = [ghist EXCEPT !.delivered = @ + 1, !.lastHigh = 0,
                                          !.resumedAt = 0]
           ELSE /\ chat' = [c1 EXCEPT !.isRecordingVoiceRef = FALSE]
                /\ gop' = GOp("RecorderStopped", NoAnalysis, FALSE, FALSE, <<>>,
                              ghist.resumedAt)
                /\ ghist' = [ghist EXCEPT !.dropped = @ + 1, !.lastHigh = 0,
                                          !.resumedAt = 0]
    /\ eop' = Quiet("env")
    /\ UNCHANGED <<ovars, now, isRecording, mounted, currentAnalysis, evars, lastVisibleChange,
                   extForceUsed, deferred>>

\* processVoiceRecording returns: finally { setIsProcessingVoice(false) }, then
\* onstop resets isRecordingVoiceRef; the effect runs again on the new state.
ProcessDone ==
    /\ chat.inFlight > 0
    /\ LET c1 == [chat EXCEPT !.inFlight = @ - 1,
                              !.isProcessingVoice = FALSE,
                              !.isRecordingVoiceRef = FALSE]
           c2 == RunEffect(c1, currentAnalysis, isRecording, now)
       IN  /\ c2.recorderCount <= MaxRecorders
           /\ chat' = c2
           /\ ghist' = Observed(ghist, c1, c2,
                                IF mounted /\ isRecording THEN currentAnalysis
                                ELSE NoAnalysis)
    /\ gop' = GQuiet("env")
    /\ eop' = Quiet("env")
    /\ UNCHANGED <<ovars, now, isRecording, mounted, currentAnalysis, evars, lastVisibleChange,
                   extForceUsed, deferred>>

----------------------------------------------------------------------------
(* Recording on and off, the component's lifetime, the clock *)

\* useAudioStore.startRecording sets isRecording and audioStream; the
\* voice-activity effect runs again with the analysis the store still holds.
StartRecording ==
    /\ mounted /\ ~isRecording
    /\ isRecording' = TRUE
    /\ LET c1 == RunEffect(chat, currentAnalysis, TRUE, now)
       IN  /\ c1.recorderCount <= MaxRecorders
           /\ chat' = c1
           /\ ghist' = Observed(ghist, chat, c1, currentAnalysis)
    /\ gop' = GQuiet("env")
    /\ eop' = Quiet("env")
    /\ UNCHANGED <<ovars, now, mounted, currentAnalysis, evars, lastVisibleChange, extForceUsed,
                   deferred>>

\* useAudioStore.stopRecording alone (the audio controls' button).
StopRecording ==
    /\ isRecording
    /\ isRecording' = FALSE
    /\ gop' = GQuiet("env")
    /\ eop' = Quiet("env")
    /\ UNCHANGED <<ovars, now, mounted, currentAnalysis, chat, ghist, evars, lastVisibleChange,
                   extForceUsed, deferred>>

\* handleToggleRecording while recording: stopRecording(); stopVoiceRecording().
ToggleStop(throws) ==
    /\ mounted /\ isRecording
    /\ (throws => StopsInactive(chat))
    /\ isRecording' = FALSE
    /\ chat' = stopVoiceRecording(chat, now, throws)
    /\ ghist' = [ghist EXCEPT !.badStop = @ \/ StopsInactive(chat)]
    /\ gop' = GQuiet("env")
    /\ eop' = Quiet("env")
    /\ UNCHANGED <<ovars, now, mounted, currentAnalysis, evars, lastVisibleChange, extForceUsed,
                   deferred>>

\* The chat component unmounts: its cleanup clears the silence timer and stops
\* the recorder, the hook's cleanup disposes the processor.  Neither touches
\* the avatar store.
Unmount ==
    /\ mounted
    /\ mounted' = FALSE
    /\ LET c1 == [chat EXCEPT !.timers = {x \in @ : x.id # chat.silenceTimerRef}]
       IN  chat' = IF c1.isRecordingVoiceRef /\ c1.mediaRecorderRef # NoRecorder
                   THEN MediaRecorderStop(c1, now)
                   ELSE c1
    /\ ghist' = [ghist EXCEPT !.badStop = @ \/ StopsInactive(chat)]
    /\ gop' = GQuiet("env")
    /\ eop' = Quiet("env")
    /\ UNCHANGED <<ovars, now, isRecording, currentAnalysis, evars, lastVisibleChange,
                   extForceUsed, deferred>>

\* Time passes up to `limit`; a timer that is due and a queued recorder event
\* run before the clock moves on.
Advance(limit) ==
    /\ now + TickMs <= limit
    /\ \A t \in timers : t.due > now
    /\ \A x \in chat.timers : x.due > now
    /\ chat.stopEvents = <<>>
    /\ \A x \in rs.timers : x.due > now
    /\ rs.stopEvents = <<>>
    /\ now' = now + TickMs
    /\ gop' = GQuiet("env")
    /\ eop' = Quiet("env")
    /\ UNCHANGED <<ovars, isRecording, mounted, currentAnalysis, chat, ghist, evars,
                   lastVisibleChange, extForceUsed, deferred>>

Tick == Advance(MaxTime)
GateTick == Advance(GateMaxTime)

----------------------------------------------------------------------------
(* useRealtimeStore.connect: the second voice-activity gate.  The closure of *)
(* connect() holds isRecording, silenceTimer and recordingChunks; one        *)
(* MediaRecorder is started and stopped for every segment.                   *)

RsInit ==
    [isConnected |-> FALSE, mediaRecorder |-> "none", from |-> 0,
     isRecording |-> FALSE, silenceTimer |-> NoTimer, timers |-> {},
     recordingChunks |-> <<>>, stopEvents |-> <<>>, inFlight |-> 0, segments |-> 0]

\* mediaRecorder.stop() on the recording recorder.
RsRecorderStop(r, t) ==
    [r EXCEPT !.mediaRecorder = "inactive",
              !.stopEvents = Append(@, [from |-> r.from,
                                        size |-> IF t > r.from THEN 1 ELSE 0])]

\* connect(): returns early when connected; otherwise, once getUserMedia has
\* resolved (a recorder event queued before has been dispatched by then), a
\* new recorder and a new closure.
RsConnect ==
    /\ ~rs.isConnected /\ rs.mediaRecorder = "none"
    /\ rs.stopEvents = <<>>
    /\ rs' = [rs EXCEPT !.isConnected = TRUE, !.mediaRecorder = "inactive",
                        !.isRecording = FALSE, !.silenceTimer = NoTimer,
                        !.timers = {}, !.recordingChunks = <<>>]
    /\ UNCHANGED <<now, isRecording, mounted, evars, ehist, gvars, proc, phist, loop, lhist, calc>>

\* One run of checkAudioLevel with the analyser's average level avg.
checkAudioLevel(r, avg, t) ==
    LET isVoiceActive == avg > storeVoiceThreshold
    IN  IF isVoiceActive /\ ~r.isRecording
        THEN [r EXCEPT !.recordingChunks = <<>>,
                       !.mediaRecorder = "recording", !.from = t,
                       !.isRecording = TRUE,
                       !.segments = @ + 1,
                       !.timers = {x \in @ : x.id # r.silenceTimer},
                       !.silenceTimer = NoTimer]
        ELSE IF ~isVoiceActive /\ r.isRecording
        THEN IF r.silenceTimer = NoTimer
             THEN LET id == FreshTimer(r.timers)
                  IN  [r EXCEPT !.timers = @ \cup {[id |-> id,
                                                    due |-> t + STORE_SILENCE_MS]},
                                !.silenceTimer = id]
             ELSE r
        ELSE IF isVoiceActive /\ r.isRecording /\ r.silenceTimer # NoTimer
        THEN [r EXCEPT !.timers = {x \in @ : x.id # r.silenceTimer},
                       !.silenceTimer = NoTimer]
        ELSE r

\* The animation-frame loop runs checkAudioLevel while the store is connected.
RsCheckAudioLevel(avg) ==
    /\ rs.isConnected
    /\ LET r1 == checkAudioLevel(rs, avg, now)
       IN  /\ r1.segments <= MaxSegments
           /\ rs' = r1
    /\ UNCHANGED <<now, isRecording, mounted, evars, ehist, gvars, proc, phist, loop, lhist, calc>>

\* The silence timer's callback: stops the recorder, leaves silenceTimer set.
RsSilenceFire(x) ==
    /\ x \in rs.timers /\ x.due <= now
    /\ LET r0 == [rs EXCEPT !.timers = @ \ {x}]
       IN  rs' = IF r0.isRecording
                 THEN [RsRecorderStop(r0, now) EXCEPT !.isRecording = FALSE]
                 ELSE r0
    /\ UNCHANGED <<now, isRecording, mounted, evars, ehist, gvars, proc, phist, loop, lhist, calc>>

\* The recorder's dataavailable and stop events: onstop starts processAudioBlob
\* on the chunks, whatever else is being processed.
RsOnStop ==
    /\ Len(rs.stopEvents) > 0
    /\ LET ev == Head(rs.stopEvents)
           chunks == IF ev.size > 0
                     THEN Append(rs.recordingChunks, [from |-> ev.from])
                     ELSE rs.recordingChunks
       IN  rs' = [rs EXCEPT !.stopEvents = Tail(@),
                            !.recordingChunks = chunks,
                            !.inFlight = IF Len(chunks) > 0 THEN @ + 1 ELSE @]
    /\ UNCHANGED <<now, isRecording, mounted, evars, ehist, gvars, proc, phist, loop, lhist, calc>>

\* processAudioBlob (transcription, then the chat completion) returns.
RsProcessDone ==
    /\ rs.inFlight > 0
    /\ rs' = [rs EXCEPT !.inFlight = @ - 1]
    /\ UNCHANGED <<now, isRecording, mounted, evars, ehist, gvars, proc, phist, loop, lhist, calc>>

\* disconnect(): stops a recording recorder and forgets it.  The closure's
\* timer can still run afterwards, but only on the forgotten recorder.
RsDisconnect ==
    /\ rs.isConnected
    /\ LET r1 == IF rs.mediaRecorder = "recording" THEN RsRecorderStop(rs, now) ELSE rs
       IN  rs' = [r1 EXCEPT !.isConnected = FALSE, !.mediaRecorder = "none",
                            !.isRecording = FALSE, !.timers = {},
                            !.silenceTimer = NoTimer]
    /\ UNCHANGED <<now, isRecording, mounted, evars, ehist, gvars, proc, phist, loop, lhist, calc>>

----------------------------------------------------------------------------
(* createAudioProcessor: pitch smoothing in processAudio.  Pitches are whole  *)
(* numbers of Hz; 0 stands for "no pitch" and for a null lastStablePitch.     *)

CalcInit == [fn |-> "none"]

ProcInit == [isProcessing |-> FALSE, pitchHistory |-> <<>>, lastStablePitch |-> 0]
PHistInit == [name |-> "init", pitch |-> 0, emitted |-> FALSE, emittedPitch |-> 0,
              arrivals |-> <<>>, lastEmitted |-> 0]

Abs(n) == IF n < 0 THEN -n ELSE n

\* [...pitchHistory].sort((a, b) => a - b), by insertion.
RECURSIVE sortedPitches(_)
Insert(x, sq) ==
    LET k == Cardinality({i \in 1..Len(sq) : sq[i] <= x})
    IN  SubSeq(sq, 1, k) \o <<x>> \o SubSeq(sq, k + 1, Len(sq))
sortedPitches(h) ==
    IF h = <<>> THEN <<>> ELSE Insert(h[Len(h)], sortedPitches(SubSeq(h, 1, Len(h) - 1)))

\* sortedPitches[Math.floor(sortedPitches.length / 2)], indices from 0.
medianPitch(h) == sortedPitches(h)[(Len(h) \div 2) + 1]

C10_mut_KeepLast(h) == IF Len(h) > PITCH_WINDOW THEN SubSeq(h, 1, PITCH_WINDOW) ELSE h
\* if (pitchHistory.length > 5) pitchHistory.shift()
KeepLast(h) == IF Len(h) > PITCH_WINDOW THEN Tail(h) ELSE h

C9_mut_StablePitchChanged(median, last) == last = 0 \/ 10 * Abs(median - last) >= last
\* !lastStablePitch || Math.abs(medianPitch - lastStablePitch) / lastStablePitch > 0.1
StablePitchChanged(median, last) == last = 0 \/ 10 * Abs(median - last) > last

\* The smoothing step of a tick on which analyzeAudio gave `pitch`.
AnalysedProc(p, pitch) ==
    IF pitch > 0
    THEN LET h == KeepLast(Append(p.pitchHistory, pitch))
             m == medianPitch(h)
         IN  [p EXCEPT !.pitchHistory = h,
                       !.lastStablePitch = IF StablePitchChanged(m, p.lastStablePitch)
                                           THEN m ELSE @]
    ELSE [p EXCEPT !.pitchHistory = <<>>, !.lastStablePitch = 0]

\* onAnalysisCallback is called on that tick.
AnalysisEmitted(p, pitch) ==
    IF pitch > 0
    THEN StablePitchChanged(medianPitch(KeepLast(Append(p.pitchHistory, pitch))),
                            p.lastStablePitch)
    ELSE TRUE

\* What the history keeps of that tick.
AnalysedHist(h, p, pitch) ==
    LET emit == AnalysisEmitted(p, pitch)
        m == AnalysedProc(p, pitch).lastStablePitch
    IN  IF pitch > 0
        THEN [h EXCEPT !.name = "tick", !.pitch = pitch, !.emitted = emit,
                       !.emittedPitch = IF emit THEN m ELSE 0,
                       !.arrivals = Append(@, pitch),
                       !.lastEmitted = IF emit THEN m ELSE @]
        ELSE [h EXCEPT !.name = "tick", !.pitch = pitch, !.emitted = TRUE,
                       !.emittedPitch = 0, !.arrivals = <<>>, !.lastEmitted = 0]

LoopInit == [lastUpdateTime |-> 0, frames |-> 0]
LHistInit == [name |-> "init", ticked |-> FALSE, feat |-> "none",
              featuresCalls |-> 0, analysisCalls |-> 0,
              lastTickAt |-> 0, gap |-> 0, early |-> FALSE, afterEarly |-> FALSE]

\* What extractFeatures returned: features, or null (Meyda missing, nothing
\* extracted, or an exception caught inside).
FeatureResults == {"ok", "null"}

C12_mut_shouldUpdate(currentTime, lastUpdateTime) == TRUE
\* currentTime - lastUpdateTime >= 100
shouldUpdate(currentTime, lastUpdateTime) ==
    currentTime - lastUpdateTime >= UPDATE_INTERVAL_MS

C13_mut_HasFeatures(feat) == TRUE
\* if (features) ...
HasFeatures(feat) == feat = "ok"

\* One run of processAudio while isProcessing, from processor state p0 and loop
\* state l0: throttled to one tick per interval; a tick extracts features
\* (`feat`) and, with features, analyses and smooths (`pitch`); then the next
\* animation frame is requested.
RunProcessAudio(name, p0, l0, h0, feat, pitch) ==
    LET upd == shouldUpdate(now, l0.lastUpdateTime)
        analysed == upd /\ HasFeatures(feat)
    IN  /\ (analysed /\ pitch > 0) => Len(h0.arrivals) < MaxArrivals
        /\ proc' = IF analysed THEN AnalysedProc(p0, pitch) ELSE p0
        /\ phist' = IF analysed THEN AnalysedHist(h0, p0, pitch)
                    ELSE [h0 EXCEPT !.name = name, !.pitch = 0, !.emitted = FALSE,
                                    !.emittedPitch = 0]
        /\ loop' = [l0 EXCEPT !.lastUpdateTime = IF upd THEN now ELSE @,
                              !.frames = @ + 1]
        /\ lhist' = [name |-> name, ticked |-> upd,
                     feat |-> IF upd THEN feat ELSE "none",
                     featuresCalls |-> IF analysed THEN 1 ELSE 0,
                     analysisCalls |-> IF analysed /\ AnalysisEmitted(p0, pitch)
                                       THEN 1 ELSE 0,
                     lastTickAt |-> IF upd THEN now ELSE lhist.lastTickAt,
                     gap |-> IF upd /\ lhist.lastTickAt # 0
                             THEN now - lhist.lastTickAt ELSE 0,
                     early |-> ~upd,
                     afterEarly |-> upd /\ lhist.early]

\* start(): sets isProcessing and runs processAudio at once.  The hook calls
\* it only on a processor that is not running.
ProcStart(feat, pitch) ==
    /\ ~proc.isProcessing
    /\ RunProcessAudio("start", [proc EXCEPT !.isProcessing = TRUE], loop, phist,
                       feat, pitch)
    /\ UNCHANGED <<now, isRecording, mounted, evars, ehist, gvars, rs, calc>>

\* stop(): the loop ends, the requested frame is cancelled and the smoothing
\* variables are reset.
ProcStop ==
    /\ proc.isProcessing
    /\ proc' = [proc EXCEPT !.isProcessing = FALSE, !.pitchHistory = <<>>,
                            !.lastStablePitch = 0]
    /\ phist' = [phist EXCEPT !.name = "stop", !.pitch = 0, !.emitted = FALSE,
                              !.emittedPitch = 0, !.arrivals = <<>>, !.lastEmitted = 0]
    /\ loop' = [loop EXCEPT !.lastUpdateTime = 0, !.frames = 0]
    /\ lhist' = [LHistInit EXCEPT !.name = "stop"]
    /\ UNCHANGED <<now, isRecording, mounted, evars, ehist, gvars, rs, calc>>

\* One analysed tick of processAudio whose pitch estimate is `pitch`.
PitchTick(pitch) ==
    /\ proc.isProcessing
    /\ (pitch > 0) => Len(phist.arrivals) < MaxArrivals
    /\ proc' = AnalysedProc(proc, pitch)
    /\ phist' = AnalysedHist(phist, proc, pitch)
    /\ UNCHANGED <<now, isRecording, mounted, evars, ehist, gvars, rs, loop, lhist, calc>>

\* The animation frame requested by processAudio arrives: processAudio runs.
FrameCallback(feat, pitch) ==
    /\ loop.frames > 0
    /\ IF proc.isProcessing
       THEN RunProcessAudio("frame", proc, [loop EXCEPT !.frames = @ - 1], phist,
                            feat, pitch)
       ELSE /\ loop' = [loop EXCEPT !.frames = @ - 1]
            /\ lhist' = [LHistInit EXCEPT !.name = "frame"]
            /\ UNCHANGED <<proc, phist>>
    /\ UNCHANGED <<now, isRecording, mounted, evars, ehist, gvars, rs, calc>>

\* Time passes until the next animation frame.
LoopAdvance ==
    /\ now + FrameMs <= LoopMaxTime
    /\ now' = now + FrameMs
    /\ lhist' = [lhist EXCEPT !.name = "advance", !.ticked = FALSE, !.feat = "none",
                              !.featuresCalls = 0, !.analysisCalls = 0, !.gap = 0,
                              !.afterEarly = FALSE]
    /\ UNCHANGED <<isRecording, mounted, evars, ehist, gvars, rs, proc, phist, loop, calc>>

----------------------------------------------------------------------------
(* createMusicAnalyzer.analyzeAudio and the routing of a recorded segment in *)
(* processVoiceRecording.  A feature vector f has spectralCentroid and       *)
(* spectralRolloff in Hz, zcr and rms in thousandths; confidences are in     *)
(* tenths.                                                                   *)

\* detectVoiceAndSinging
voiceRange(f) == f.spectralCentroid > 200 /\ f.spectralCentroid < 2000
voiceZCR(f) == f.zcr > 10 /\ f.zcr < 300
C21_mut_hasEnergy(f) == TRUE
hasEnergy(f) == f.rms > 10
detectVoiceAndSinging(f) ==
    LET isVoice == voiceRange(f) /\ voiceZCR(f) /\ hasEnergy(f)
    IN  [isVoice |-> isVoice,
         isSinging |-> isVoice /\ f.zcr < 150 /\ f.rms > 50,
         confidence |-> (IF voiceRange(f) THEN 4 ELSE 0) + (IF voiceZCR(f) THEN 3 ELSE 0)
                        + (IF hasEnergy(f) THEN 3 ELSE 0)]

hasMusicalSpectrum(f) == f.spectralCentroid > 100 /\ f.spectralRolloff > 1000
hasMusicalEnergy(f) == f.rms > 5
hasMusicalComplexity(f) == f.zcr > 1
musicConfidence(f) ==
    (IF hasMusicalSpectrum(f) THEN 4 ELSE 0) + (IF hasMusicalEnergy(f) THEN 3 ELSE 0)
    + (IF hasMusicalComplexity(f) THEN 2 ELSE 0)
    + (IF f.spectralRolloff > 5000 THEN 1 ELSE 0)

Max(a, b) == IF a >= b THEN a ELSE b

\* The fields of the MusicAnalysis that the routing reads; `extracted` is
\* whether Meyda.extract gave features (the defaults are returned otherwise).
quickAnalysis(extracted, f) ==
    IF ~extracted
    THEN [isVoice |-> FALSE, isSinging |-> FALSE, isMusicDetected |-> FALSE,
          confidence |-> 0]
    ELSE LET v == detectVoiceAndSinging(f)
             isMusicDetected == ~v.isVoice /\ hasMusicalSpectrum(f)
                                /\ hasMusicalEnergy(f) /\ hasMusicalComplexity(f)
         IN  [isVoice |-> v.isVoice, isSinging |-> v.isSinging,
              isMusicDetected |-> isMusicDetected,
              confidence |-> IF isMusicDetected
                             THEN Max(v.confidence, musicConfidence(f))
                             ELSE v.confidence]

\* processVoiceRecording, step 2: which service handles the segment.
RoutePath(qa) ==
    IF qa.isMusicDetected /\ qa.confidence > 2 THEN "music"
    ELSE IF (qa.isVoice \/ qa.isSinging) /\ ~qa.isMusicDetected THEN "speech"
    ELSE "unclear"

Centroids == {50, 150, 1000, 3000}
Rolloffs == {500, 3000, 6000}
ZeroCrossings == {0, 5, 50, 200, 500}
Energies == {0, 8, 30, 100}

\* A recorded segment with these features is analysed and routed.
RouteSegment(extracted, f) ==
    /\ calc' = [fn |-> "route", extracted |-> extracted, f |-> f,
                qa |-> quickAnalysis(extracted, f),
                path |-> RoutePath(quickAnalysis(extracted, f))]
    /\ UNCHANGED <<now, isRecording, mounted, evars, ehist, gvars, rs, proc, phist,
                   loop, lhist>>

----------------------------------------------------------------------------
(* MusicCompanion: voice and instrument detection and their composition.     *)
(* Same units as above; mfcc is the sequence of coefficients.                *)

\* detectVoice(spectralCentroid, zcr, rms, mfcc)
detectVoice(f) ==
    LET hasVocalSpectralRange == f.spectralCentroid > 200 /\ f.spectralCentroid < 4000
        hasVocalZCR == f.zcr > 20 /\ f.zcr < 300
        hasSufficientEnergy == f.rms > 10
        hasVocalMFCC == Len(f.mfcc) > 0 /\ f.mfcc[1] > -20
    IN  hasVocalSpectralRange /\ hasVocalZCR /\ hasSufficientEnergy /\ hasVocalMFCC

\* detectInstruments(spectralCentroid, spectralRolloff, rms)
detectInstruments(f) ==
    LET instruments ==
            (IF f.spectralCentroid > 800 /\ f.spectralCentroid < 3000 /\ f.rms > 20
             THEN <<"guitar">> ELSE <<>>)
            \o (IF f.spectralCentroid > 500 /\ f.spectralCentroid < 4000
                   /\ f.spectralRolloff > 2000
                THEN <<"piano">> ELSE <<>>)
            \o (IF f.spectralRolloff > 8000 /\ f.rms > 100 THEN <<"drums">> ELSE <<>>)
    IN  IF Len(instruments) > 0 THEN instruments ELSE <<"unknown">>

\* analyzeOverall: musicType from the two analyses.
musicType(isVoiceDetected, instruments) ==
    IF isVoiceDetected /\ Len(instruments) > 0 THEN "mixed"
    ELSE IF isVoiceDetected THEN "vocal"
    ELSE "instrumental"

CompanionFeatures ==
    [spectralCentroid : {100, 300, 600, 1000, 3500, 5000},
     spectralRolloff : {1000, 3000, 9000},
     zcr : {10, 50, 500},
     rms : {5, 15, 50, 200},
     mfcc : {<<>>, <<-30>>, <<0>>}]

\* analyzePerformance on features f: the voice and instrument analyses and
\* the overall music type.
AnalyzePerformance(f) ==
    /\ calc' = [fn |-> "performance", f |-> f,
                isVoiceDetected |-> detectVoice(f),
                instruments |-> detectInstruments(f),
                musicType |-> musicType(detectVoice(f), detectInstruments(f))]
    /\ UNCHANGED <<now, isRecording, mounted, evars, ehist, gvars, rs, proc, phist,
                   loop, lhist>>

\* detectChords.  Chroma energies are in tenths; rootIndex counts from 0.
notes == <<"C", "C#", "D", "D#", "E", "F", "F#", "G", "G#", "A", "A#", "B">>

\* for (let i = 0; i < 12; i++) if (chroma[i] > maxChroma) { ... }
RECURSIVE strongestFrom(_, _, _, _)
strongestFrom(chroma, i, maxChroma, rootIndex) ==
    IF i >= 12 THEN [maxChroma |-> maxChroma, rootIndex |-> rootIndex]
    ELSE IF chroma[i + 1] > maxChroma
    THEN strongestFrom(chroma, i + 1, chroma[i + 1], i)
    ELSE strongestFrom(chroma, i + 1, maxChroma, rootIndex)

C16_mut_majorThird(rootIndex) == (rootIndex + 3) % 12
majorThird(rootIndex) == (rootIndex + 4) % 12
minorThird(rootIndex) == (rootIndex + 3) % 12
perfectFifth(rootIndex) == (rootIndex + 7) % 12

detectChords(chroma) ==
    IF Len(chroma) # 12 THEN <<>>
    ELSE LET st == strongestFrom(chroma, 0, 0, 0)
             rootIndex == st.rootIndex
         IN  IF st.maxChroma < chordThreshold THEN <<>>
             ELSE IF chroma[majorThird(rootIndex) + 1] > chordThreshold
                     /\ chroma[perfectFifth(rootIndex) + 1] > chordThreshold
             THEN <<notes[rootIndex + 1] \o "maj">>
             ELSE IF chroma[minorThird(rootIndex) + 1] > chordThreshold
                     /\ chroma[perfectFifth(rootIndex) + 1] > chordThreshold
             THEN <<notes[rootIndex + 1] \o "min">>
             ELSE <<notes[rootIndex + 1]>>

\* Chroma vectors: energy lr at bin r, l3, l4 and l7 at the bins three, four
\* and seven semitones above it, bg elsewhere; and vectors of another length.
ChromaLevels == {0, 1, 3, 5, 10}
ChromaOf(r, lr, l3, l4, l7, bg) ==
    [i \in 1..12 |-> IF i - 1 = r THEN lr
                     ELSE IF i - 1 = (r + 3) % 12 THEN l3
                     ELSE IF i - 1 = (r + 4) % 12 THEN l4
                     ELSE IF i - 1 = (r + 7) % 12 THEN l7
                     ELSE bg]
ChromaVectors ==
    {ChromaOf(r, lr, l3, l4, l7, bg) :
        r \in 0..11, lr \in ChromaLevels, l3 \in ChromaLevels, l4 \in ChromaLevels,
        l7 \in ChromaLevels, bg \in {0, 1}}
    \cup {<<>>, <<10, 10, 10>>, [i \in 1..11 |-> 10], [i \in 1..13 |-> 10]}

\* detectChords applied to a chroma vector, once in a behaviour.
DetectChords(chroma) ==
    /\ calc.fn = "none"
    /\ calc' = [fn |-> "chords", chroma |-> chroma, chords |-> detectChords(chroma)]
    /\ UNCHANGED <<now, isRecording, mounted, evars, ehist, gvars, rs, proc, phist,
                   loop, lhist>>

----------------------------------------------------------------------------
(* useRealtimeStore.parseAvatarInstructions.  A response is a sequence of     *)
(* tokens: a word, a run of white space, or a piece of text of the form       *)
(* "[AVATAR: name]".                                                          *)

Word(v) == [kind |-> "text", v |-> v]
Space == [kind |-> "ws", v |-> " "]
Tag(name) == [kind |-> "tag", v |-> name]
IsTag(tok) == tok.kind = "tag"

\* String.prototype.toLowerCase on the names used in the model.
toLowerCase(name) ==
    CASE name = "CURIOUS" -> "curious"
      [] name = "Excited" -> "excited"
      [] OTHER -> name

\* "Validate emotion exists"
validEmotions == CompanionEmotion

\* response.match(/\[AVATAR:\s*(\w+)\]/i): the index of the first tag, 0 if none.
avatarMatch(response) ==
    IF \E i \in 1..Len(response) : IsTag(response[i])
    THEN CHOOSE i \in 1..Len(response) :
            IsTag(response[i]) /\ \A j \in 1..(i - 1) : ~IsTag(response[j])
    ELSE 0

\* response.replace(/\[AVATAR:\s*\w+\]/gi, ''): every tag is removed.
RemoveTags(response) == SelectSeq(response, LAMBDA tok : ~IsTag(tok))

RECURSIVE trimStart(_)
trimStart(text) ==
    IF text # <<>> /\ Head(text).kind = "ws" THEN trimStart(Tail(text)) ELSE text

RECURSIVE trimEnd(_)
trimEnd(text) ==
    IF text # <<>> /\ text[Len(text)].kind = "ws"
    THEN trimEnd(SubSeq(text, 1, Len(text) - 1))
    ELSE text

trim(text) == trimEnd(trimStart(text))

cleanResponse(response) == trim(RemoveTags(response))

\* The emotion the directive names, NULL when there is no tag or the name is
\* not one of validEmotions.
DirectiveEmotion(response) ==
    LET i == avatarMatch(response)
    IN  IF i = 0 THEN NULL
        ELSE IF toLowerCase(response[i].v) \in validEmotions
             THEN toLowerCase(response[i].v)
             ELSE NULL

\* The content of the last (assistant) message after parseAvatarInstructions:
\* the clean-up is inside the branch of a valid emotion.
ParsedContent(response) ==
    IF DirectiveEmotion(response) # NULL THEN cleanResponse(response) ELSE response

\* finishStreamingMessage leaves the streamed text as the content of the last
\* message; parseAvatarInstructions(fullResponse) then runs on it.
parseAvatarInstructions(response) ==
    LET em == DirectiveEmotion(response)
    IN  /\ mounted
        /\ IF em # NULL
           THEN SetEmotion(em, FALSE, timers)
           ELSE /\ UNCHANGED evars
                /\ UNCHANGED <<lastVisibleChange, deferred>>
        /\ calc' = [fn |-> "parseAvatarInstructions", response |-> response,
                    content |-> ParsedContent(response), requested |-> em,
                    isAnimating |-> (em # NULL \/ (calc.fn = "parseAvatarInstructions"
                                                  /\ calc.isAnimating))]
        /\ eop' = Op("parseAvatarInstructions", em, FALSE, now - lastEmotionChange,
                     NULL, FALSE)
        /\ UNCHANGED <<now, isRecording, mounted, extForceUsed, gvars, rs, proc, phist,
                       loop, lhist>>

----------------------------------------------------------------------------
(* useRealtimeStore.sendToOpenAI and processAudioBlob when a collaborator    *)
(* fails.  calc holds the position of the one call in progress and the        *)
(* store's error field.                                                       *)

SendIdle == [fn |-> "sendToOpenAI", pc |-> "idle", error |-> NULL]
SendState == IF calc.fn = "none" THEN SendIdle ELSE calc

\* sendToOpenAI makes its first two setEmotion calls in one task: the model
\* takes them as two steps and lets nothing else run in between.
Settled == SendState.pc # "reacted"

\* avatarStore.reactToUserInput('voice', transcript): setEmotion('listening').
SendReact ==
    /\ mounted /\ SendState.pc = "idle"
    /\ SetEmotion("listening", FALSE, timers)
    /\ calc' = [SendState EXCEPT !.pc = "reacted"]
    /\ eop' = Op("reactToUserInput", "listening", FALSE, now - lastEmotionChange,
                 NULL, FALSE)
    /\ UNCHANGED <<now, isRecording, mounted, extForceUsed, gvars, rs, proc, phist,
                   loop, lhist>>

\* avatarStore.reactToAIResponse('thinking'): setEmotion('processing'); then
\* the call waits for fetch.
SendThink ==
    /\ SendState.pc = "reacted"
    /\ SetEmotion("processing", FALSE, timers)
    /\ calc' = [SendState EXCEPT !.pc = "awaiting"]
    /\ eop' = Op("reactToAIResponse", "processing", FALSE, now - lastEmotionChange,
                 NULL, FALSE)
    /\ UNCHANGED <<now, isRecording, mounted, extForceUsed, gvars, rs, proc, phist,
                   loop, lhist>>

\* fetch rejects or answers with !response.ok: the catch block of sendToOpenAI
\* sets the error and calls showConcern, which is setEmotion('concerned')
\* without force.
FetchFails ==
    /\ SendState.pc = "awaiting"
    /\ SetEmotion("concerned", FALSE, timers)
    /\ calc' = [SendState EXCEPT !.pc = "idle", !.error = "Failed to get AI response"]
    /\ eop' = Op("showConcern", "concerned", FALSE, now - lastEmotionChange,
                 NULL, FALSE)
    /\ UNCHANGED <<now, isRecording, mounted, extForceUsed, gvars, rs, proc, phist,
                   loop, lhist>>

\* The transcription request of processAudioBlob fails: its catch block sets
\* the error and does nothing else.
TranscriptionFails ==
    /\ mounted /\ SendState.pc = "idle"
    /\ calc' = [SendState EXCEPT !.error = "Failed to process audio"]
    /\ eop' = Quiet("processAudioBlob")
    /\ UNCHANGED <<now, isRecording, mounted, evars, lastVisibleChange, extForceUsed,
                   deferred, gvars, rs, proc, phist, loop, lhist>>

\* setError(null) by the user interface.
ClearError ==
    /\ SendState.error # NULL /\ Settled
    /\ calc' = [SendState EXCEPT !.error = NULL]
    /\ eop' = Quiet("env")
    /\ UNCHANGED <<now, isRecording, mounted, evars, lastVisibleChange, extForceUsed,
                   deferred, gvars, rs, proc, phist, loop, lhist>>

----------------------------------------------------------------------------
(* MusicCompanion.extractPitch.  audioData is a sequence of samples (index 0  *)
(* of the source is index 1 here); a pitch is the fraction num / den.         *)

\* correlation += audioData[i] * audioData[i + period], for i in lo..hi.  The
\* sum is split in halves to keep the evaluation shallow.
RECURSIVE correlationOver(_, _, _, _)
correlationOver(audioData, period, lo, hi) ==
    IF lo > hi THEN 0
    ELSE IF lo = hi THEN audioData[lo + 1] * audioData[lo + period + 1]
    ELSE LET mid == (lo + hi) \div 2
         IN  correlationOver(audioData, period, lo, mid)
                + correlationOver(audioData, period, mid + 1, hi)

minPeriod(sampleRate) == sampleRate \div 800   \* "800 Hz max"
maxPeriod(sampleRate) == sampleRate \div 80    \* "80 Hz min"

\* The periods the loop visits: period = minPeriod, minPeriod + 1, ... while
\* period < maxPeriod && period < audioData.length / 2.
Periods(audioData, sampleRate) ==
    {period \in minPeriod(sampleRate)..(maxPeriod(sampleRate) - 1) :
        2 * period < Len(audioData)}

\* The loop keeps the first period whose correlation exceeds every earlier one
\* and 0 (bestCorrelation starts at 0, the comparison is strict).
\* return bestPeriod > 0 ? sampleRate / bestPeriod : 0
extractPitch(audioData, sampleRate) ==
    LET correlation == [period \in Periods(audioData, sampleRate) |->
                            correlationOver(audioData, period, 0, Len(audioData) - period - 1)]
        bestPeriod ==
            IF \E period \in DOMAIN correlation : correlation[period] > 0
            THEN CHOOSE period \in DOMAIN correlation :
                    /\ correlation[period] > 0
                    /\ \A q \in DOMAIN correlation :
                          /\ correlation[q] <= correlation[period]
                          /\ q < period => correlation[q] < correlation[period]
            ELSE 0
    IN  IF bestPeriod > 0
        THEN [num |-> sampleRate, den |-> bestPeriod]
        ELSE [num |-> 0, den |-> 1]

ExtractPitch(audioData, sampleRate) ==
    /\ calc.fn = "none"
    /\ calc' = [fn |-> "extractPitch", audioData |-> audioData,
                sampleRate |-> sampleRate, pitch |-> extractPitch(audioData, sampleRate)]
    /\ UNCHANGED <<now, isRecording, mounted, evars, ehist, gvars, rs, proc, phist,
                   loop, lhist>>

----------------------------------------------------------------------------
(* createMusicAnalyzer: ensurePowerOfTwo and the resizing of analyzeAudio.    *)
(* A buffer is given by its length; the model keeps the indices read.         *)

\* (size & (size - 1)) === 0, for size > 0
IsPowerOfTwo(size) == \E k \in 0..15 : size = 2 ^ k

\* while (powerOfTwo < size && powerOfTwo < MAX_BUFFER_SIZE) powerOfTwo *= 2
RECURSIVE nextPowerOfTwo(_, _)
nextPowerOfTwo(powerOfTwo, size) ==
    IF powerOfTwo < size /\ powerOfTwo < MAX_BUFFER_SIZE
    THEN nextPowerOfTwo(powerOfTwo * 2, size)
    ELSE powerOfTwo

C20_mut_ensurePowerOfTwo(size) ==
    IF size <= 0 THEN 512
    ELSE IF size > MAX_BUFFER_SIZE THEN MAX_BUFFER_SIZE
    ELSE nextPowerOfTwo(1, size)
ensurePowerOfTwo(size) ==
    IF size <= 0 THEN 512
    ELSE IF size > MAX_BUFFER_SIZE THEN MAX_BUFFER_SIZE
    ELSE IF IsPowerOfTwo(size) THEN size
    ELSE LET powerOfTwo == nextPowerOfTwo(1, size)
             prevPowerOfTwo == powerOfTwo \div 2
         IN  IF (size - prevPowerOfTwo) < (powerOfTwo - size)
             THEN prevPowerOfTwo
             ELSE powerOfTwo

\* Math.floor(i * step) with step = from / to: the index read for output i.
ResampleIndex(i, from, to) == (i * from) \div to

\* Every index read when a buffer of `from` samples is brought to `to`
\* samples lies in the buffer: a longer buffer is read at ResampleIndex, a
\* shorter one is copied whole by set().
ReadsInside(from, to) ==
    IF from > to
    THEN \A i \in 0..(to - 1) : ResampleIndex(i, from, to) \in 0..(from - 1)
    ELSE \A i \in 0..(from - 1) : i \in 0..(to - 1)

\* analyzeAudio up to the call of Meyda.extract, for an input of n samples.
AnalyzeAudioFrame(n) ==
    LET limited == IF n > MAX_AUDIO_LENGTH THEN MAX_AUDIO_LENGTH ELSE n
        bufferSize == ensurePowerOfTwo(limited)
    IN  /\ calc.fn = "none"
        /\ calc' = [fn |-> "analyzeAudio", n |-> n, limited |-> limited,
                    frame |-> bufferSize,
                    inside |-> /\ (n > MAX_AUDIO_LENGTH => ReadsInside(n, limited))
                               /\ (limited # bufferSize
                                      => ReadsInside(limited, bufferSize))]
        /\ UNCHANGED <<now, isRecording, mounted, evars, ehist, gvars, rs, proc, phist,
                       loop, lhist>>

----------------------------------------------------------------------------
(* MusicCompanion.generateSuggestions.  pitchStability is in tenths, NaN is   *)
(* the value no comparison holds for; a chord is its root and its quality.    *)

NaN == -1
LessThan(a, b) == a # NaN /\ b # NaN /\ a < b

\* lastChord.includes(instruments.key): a key is a note name, and a note name
\* occurs in the text root + quality only at its start.
Includes(chord, key) == chord.root = key \/ chord.root = key \o "#"

KeySuggestion(key) == "Try singing in the key of " \o key
DissonanceSuggestion == "Your voice is creating some dissonance - try adjusting your pitch"
StabilitySuggestion == "Work on pitch stability for better singing"
ResolveSuggestion(key) == "Try resolving to " \o key \o " for a stronger ending"
GenericSuggestion == "Sounds great! Keep it up!"

C22_mut_NotInKey(voice) == TRUE
NotInKey(voice) == ~voice.inKey

generateSuggestions(voice, instruments) ==
    LET progression == instruments.chordProgression
        fromVoice ==
            IF voice.isVoiceDetected
            THEN (IF NotInKey(voice) THEN <<KeySuggestion(instruments.key)>> ELSE <<>>)
                 \o (IF voice.harmony = "dissonant" THEN <<DissonanceSuggestion>> ELSE <<>>)
                 \o (IF LessThan(voice.pitchStability, 5)
                     THEN <<StabilitySuggestion>> ELSE <<>>)
            ELSE <<>>
        fromChords ==
            IF Len(progression) > 2
               /\ ~Includes(progression[Len(progression)], instruments.key)
            THEN <<ResolveSuggestion(instruments.key)>>
            ELSE <<>>
        suggestions == fromVoice \o fromChords
    IN  IF Len(suggestions) = 0 THEN <<GenericSuggestion>> ELSE suggestions

GenerateSuggestions(voice, instruments) ==
    /\ calc' = [fn |-> "generateSuggestions", voice |-> voice,
                instruments |-> instruments,
                suggestions |-> generateSuggestions(voice, instruments)]
    /\ UNCHANGED <<now, isRecording, mounted, evars, ehist, gvars, rs, proc, phist,
                   loop, lhist>>

----------------------------------------------------------------------------
(* useRealtimeStore.sendToOpenAI: the handling of the completion marker.      *)
(* finishStreamingMessage, parseAvatarInstructions(fullResponse) and          *)
(* reactToAIResponse('finished') run in one task: the model takes the last    *)
(* call as a step of its own and lets nothing run before it.                  *)

\* avatarStore.reactToAIResponse('finished'): setEmotion('helpful').
ReactFinished ==
    /\ calc.fn = "parseAvatarInstructions"
    /\ SetEmotion("helpful", FALSE, timers)
    /\ calc' = [calc EXCEPT !.fn = "finished"]
    /\ eop' = Op("reactToAIResponse", "helpful", FALSE, now - lastEmotionChange,
                 NULL, FALSE)
    /\ UNCHANGED <<now, isRecording, mounted, extForceUsed, gvars, rs, proc, phist,
                   loop, lhist>>

----------------------------------------------------------------------------
(* The processor and the chat gate together: the voice-activity effect runs   *)
(* when processAudio hands a snapshot to updateAnalysis, and only then.       *)
(* calc holds the input signal's phase: whether it has gone quiet for good,   *)
(* when, and the time of the last analysed frame.                             *)

SignalInit == [fn |-> "signal", quiet |-> FALSE, quietAt |-> 0, analysedAt |-> 0]
SignalState == IF calc.fn = "none" THEN SignalInit ELSE calc

\* processAudio (started by the hook with the recording) analyses one frame
\* of volume v and pitch `pitch` (features extracted); a snapshot is stored, and the effect runs, when
\* onAnalysisCallback is called.
AnalysisTick(v, pitch) ==
    /\ mounted /\ isRecording
    /\ SignalState.analysedAt # now
    /\ SignalState.quiet => v <= voiceThreshold
    /\ proc' = [AnalysedProc(proc, pitch) EXCEPT !.isProcessing = TRUE]
    /\ calc' = [SignalState EXCEPT !.analysedAt = now]
    /\ IF AnalysisEmitted(proc, pitch)
       THEN LET c1 == RunEffect(chat, v, isRecording, now)
            IN  /\ c1.recorderCount <= MaxRecorders
                /\ chat' = c1
                /\ gop' = GOp("Sample", v,
                              GateCoolingDown(chat) /\ v > voiceThreshold, FALSE, <<>>, 0)
                /\ ghist' = Observed(ghist, chat, c1, v)
                /\ currentAnalysis' = v
       ELSE /\ gop' = GQuiet("env")
            /\ UNCHANGED <<currentAnalysis, chat, ghist>>
    /\ eop' = Quiet("env")
    /\ UNCHANGED <<now, isRecording, mounted, evars, lastVisibleChange, extForceUsed,
                   deferred, rs, phist, loop, lhist>>

\* From now on the input volume stays at or below the threshold.
GoQuiet ==
    /\ ~SignalState.quiet
    /\ now + SILENCE_MS + TickMs <= GateMaxTime
    /\ calc' = [SignalState EXCEPT !.quiet = TRUE, !.quietAt = now]
    /\ UNCHANGED <<now, isRecording, mounted, evars, ehist, gvars, rs, proc, phist,
                   loop, lhist>>

\* The clock advances once the frame of the current instant is analysed.
SignalTick == (isRecording => SignalState.analysedAt = now) /\ GateTick

----------------------------------------------------------------------------
(* MusicCompanion.analyzeVoice: the pitch history and calculatePitchStability. *)
(* Pitches are in hundreds of Hz, the stability is in hundredths.              *)

RECURSIVE SumSeq(_)
SumSeq(q) == IF q = <<>> THEN 0 ELSE Head(q) + SumSeq(Tail(q))

\* Math.sqrt on a value in ten-thousandths, in hundredths (rounded down).
SqrtHundredths(x) == CHOOSE r \in 0..x : r * r <= x /\ (r + 1) * (r + 1) > x

\* this.pitchHistory.slice(-10)
recentPitches(pitchHistory) ==
    SubSeq(pitchHistory, Max(1, Len(pitchHistory) - 9), Len(pitchHistory))

\* standardDeviation / mean = sqrt(n * sum of squares - sum^2) / sum; 0 / 0 is
\* NaN, and so are 1 - NaN and Math.max(0, NaN).
calculatePitchStability(pitchHistory) ==
    IF Len(pitchHistory) < 5 THEN 0
    ELSE LET recent == recentPitches(pitchHistory)
             n == Len(recent)
             sum == SumSeq(recent)
             squares == SumSeq([i \in 1..n |-> recent[i] * recent[i]])
         IN  IF sum = 0 THEN NaN
             ELSE Max(0, 100 - SqrtHundredths((10000 * (n * squares - sum * sum))
                                                \div (sum * sum)))

VoiceInit == [fn |-> "analyzeVoice", pitchHistory |-> <<>>, pitchStability |-> 0]
VoiceState == IF calc.fn = "none" THEN VoiceInit ELSE calc

\* analyzeVoice on a frame in which a voice is or is not detected and whose
\* pitch estimate is `pitch`.
AnalyzeVoice(isVoiceDetected, pitch) ==
    /\ Len(VoiceState.pitchHistory) < MaxCalls
    /\ calc' = IF ~isVoiceDetected
               THEN [VoiceState EXCEPT !.pitchStability = 0]
               ELSE LET pushed == Append(VoiceState.pitchHistory, pitch)
                        kept == IF Len(pushed) > maxHistoryLength
                                THEN Tail(pushed) ELSE pushed
                    IN  [VoiceState EXCEPT !.pitchHistory = kept,
                                           !.pitchStability = calculatePitchStability(kept)]
    /\ UNCHANGED <<now, isRecording, mounted, evars, ehist, gvars, rs, proc, phist,
                   loop, lhist>>

----------------------------------------------------------------------------
(* useRealtimeStore: the conversation under overlapping sendToOpenAI calls.   *)
(* A chunk is <<r, k>>, the k-th piece of text of call r.  The avatar         *)
(* reactions of the same calls (SendReact, SendThink, StreamRequest,          *)
(* DoneParse) neither read nor write the conversation and are left out here.  *)

Calls == 1..MaxRequests
ConversationInit ==
    [fn |-> "conversation", conversation |-> <<>>,
     pc |-> [r \in Calls |-> "idle"], sent |-> [r \in Calls |-> 0]]
ConversationState == IF calc.fn = "none" THEN ConversationInit ELSE calc

\* addMessage({ role: 'user', content })
addMessage(conversation, r) ==
    Append(conversation, [role |-> "user", content |-> <<<<r, 0>>>>, isStreaming |-> FALSE])

\* updateStreamingMessage(content): the last message is extended when it is a
\* streaming assistant message, a new one is pushed otherwise.
updateStreamingMessage(conversation, content) ==
    LET n == Len(conversation)
    IN  IF n > 0 /\ conversation[n].role = "assistant" /\ conversation[n].isStreaming
        THEN [conversation EXCEPT ![n].content = Append(@, content)]
        ELSE Append(conversation,
                    [role |-> "assistant", content |-> <<content>>, isStreaming |-> TRUE])

\* finishStreamingMessage(): the last message, if it is streaming, is unmarked.
finishStreamingMessage(conversation) ==
    LET n == Len(conversation)
    IN  IF n > 0 /\ conversation[n].isStreaming
        THEN [conversation EXCEPT ![n].isStreaming = FALSE]
        ELSE conversation

ConversationStep(st) ==
    /\ calc' = st
    /\ UNCHANGED <<now, isRecording, mounted, evars, ehist, gvars, rs, proc, phist,
                   loop, lhist>>

\* sendToOpenAI(transcript) up to its fetch: neither caller waits for an
\* earlier call to end.
SendToOpenAI(r) ==
    /\ ConversationState.pc[r] = "idle"
    /\ ConversationStep([ConversationState EXCEPT
            !.conversation = addMessage(@, r), !.pc[r] = "streaming"])

\* A line `data: {content}` of the stream of call r is read.
StreamChunk(r) ==
    /\ ConversationState.pc[r] = "streaming"
    /\ ConversationState.sent[r] < MaxChunks
    /\ ConversationStep([ConversationState EXCEPT
            !.conversation = updateStreamingMessage(@, <<r, ConversationState.sent[r] + 1>>),
            !.sent[r] = @ + 1])

\* The line `data: {done}` of the stream of call r is read.
StreamDone(r) ==
    /\ ConversationState.pc[r] = "streaming"
    /\ ConversationStep([ConversationState EXCEPT
            !.conversation = finishStreamingMessage(@), !.pc[r] = "finished"])

----------------------------------------------------------------------------
(* MusicCompanion.isVoiceInKey and analyzeHarmony.  A pitch is given by its   *)
(* offset k in semitones from 440 Hz (pitch = 440 * 2^(k/12)), so that         *)
(* Math.round(12 * Math.log2(pitch / 440)) is k.                               *)

\* The % of JavaScript: the result has the sign of the dividend.
JsRem(a, b) == IF a >= 0 THEN a % b ELSE -((-a) % b)

\* const noteIndex = ... % 12; const normalizedIndex = (noteIndex + 9) % 12
normalizedIndex(k) == JsRem(JsRem(k, 12) + 9, 12)

\* chroma[i] > 0.3; an index outside the array reads undefined, and
\* undefined > 0.3 is false.
StrongAt(chroma, i) == i \in 0..(Len(chroma) - 1) /\ chroma[i + 1] > chordThreshold

isVoiceInKey(k, chroma) == Len(chroma) = 12 /\ StrongAt(chroma, normalizedIndex(k))

\* The indices analyzeHarmony reads for the intervals 0, 4 and 7.
HarmonyIndices(k) == {JsRem(normalizedIndex(k) + interval, 12) : interval \in {0, 4, 7}}

analyzeHarmony(k, chroma) ==
    IF Len(chroma) # 12 THEN "neutral"
    ELSE IF \E i \in HarmonyIndices(k) : StrongAt(chroma, i) THEN "consonant"
    ELSE "dissonant"

\* analyzeVoice checks a non-zero pitch against the chroma vector.
KeyCheck(k, chroma) ==
    /\ calc' = [fn |-> "isVoiceInKey", k |-> k, chroma |-> chroma,
                index |-> normalizedIndex(k), reads |-> HarmonyIndices(k),
                inKey |-> isVoiceInKey(k, chroma), harmony |-> analyzeHarmony(k, chroma)]
    /\ UNCHANGED <<now, isRecording, mounted, evars, ehist, gvars, rs, proc, phist,
                   loop, lhist>>

----------------------------------------------------------------------------
(* The state after construction *)

Volumes == {5, 30}

ChatInit ==
    [isProcessingVoice |-> FALSE, isRecordingVoiceRef |-> FALSE,
     silenceTimerRef |-> NoTimer, timers |-> {},
     mediaRecorderRef |-> NoRecorder, recordingChunksRef |-> <<>>,
     stopEvents |-> <<>>, inFlight |-> 0, recorderCount |-> 0]

Init ==
    /\ now = TickMs
    /\ emotion = "neutral"
    /\ lastEmotionChange = 0
    /\ pendingEmotion = NULL
    /\ emotionTimeout = NoTimer
    /\ timers = {}
    /\ isRecording = FALSE
    /\ mounted = TRUE
    /\ eop = Quiet("Init")
    /\ lastVisibleChange = 0
    /\ extForceUsed = FALSE
    /\ deferred = NoDeferred
    /\ currentAnalysis = NoAnalysis
    /\ chat = ChatInit
    /\ gop = GQuiet("Init")
    /\ ghist = [lastHigh |-> 0, resumedAt |-> 0, boundaries |-> 0, delivered |-> 0,
                dropped |-> 0, badStop |-> FALSE]
    /\ rs = RsInit
    /\ proc = ProcInit
    /\ phist = PHistInit
    /\ loop = LoopInit
    /\ lhist = LHistInit
    /\ calc = CalcInit

NextEmotion ==
    \/ \E em \in RequestedEmotions, force \in BOOLEAN : Request(em, force)
    \/ \E t \in timers : PendingFire(t)
    \/ \E t \in timers : ReturnFire(t)
    \/ StartRecording
    \/ StopRecording
    \/ Unmount
    \/ Tick

SpecEmotion == Init /\ [][NextEmotion]_vars

NextChatGate ==
    \/ \E v \in Volumes : Sample(v)
    \/ \E x \in chat.timers, throws \in BOOLEAN : SilenceFire(x, throws)
    \/ RecorderStopped
    \/ ProcessDone
    \/ StartRecording
    \/ StopRecording
    \/ \E throws \in BOOLEAN : ToggleStop(throws)
    \/ Unmount
    \/ GateTick

SpecChatGate == Init /\ [][NextChatGate]_vars

Levels == {10, 40}

NextStoreGate ==
    \/ RsConnect
    \/ \E avg \in Levels : RsCheckAudioLevel(avg)
    \/ \E x \in rs.timers : RsSilenceFire(x)
    \/ RsOnStop
    \/ RsProcessDone
    \/ RsDisconnect
    \/ Tick

SpecStoreGate == Init /\ [][NextStoreGate]_vars

Pitches == {0, 100, 110, 111, 150}

NextPitch ==
    \/ \E feat \in FeatureResults, pitch \in Pitches : ProcStart(feat, pitch)
    \/ ProcStop
    \/ \E pitch \in Pitches : PitchTick(pitch)

SpecPitch == Init /\ [][NextPitch]_vars

LoopPitches == {0, 100, 150}

NextLoop ==
    \/ \E feat \in FeatureResults, pitch \in LoopPitches : ProcStart(feat, pitch)
    \/ ProcStop
    \/ \E feat \in FeatureResults, pitch \in LoopPitches : FrameCallback(feat, pitch)
    \/ LoopAdvance

SpecLoop == Init /\ [][NextLoop]_vars

FeatureVectors ==
    [spectralCentroid : Centroids, spectralRolloff : Rolloffs, zcr : ZeroCrossings,
     rms : Energies]

NextRouting == \E extracted \in BOOLEAN, f \in FeatureVectors : RouteSegment(extracted, f)

SpecRouting == Init /\ [][NextRouting]_vars

NextCompanion == \E f \in CompanionFeatures : AnalyzePerformance(f)

SpecCompanion == Init /\ [][NextCompanion]_vars

NextChords == \E chroma \in ChromaVectors : DetectChords(chroma)

SpecChords == Init /\ [][NextChords]_vars

DirectiveTokens == {Word("hi"), Space, Tag("Excited"), Tag("CURIOUS"), Tag("bogus")}
Responses ==
    {<<>>} \cup {<<a>> : a \in DirectiveTokens}
           \cup {<<a, b>> : a \in DirectiveTokens, b \in DirectiveTokens}
           \cup {<<Tag("bogus"), Space, Tag("Excited")>>,
                 <<Space, Word("hi"), Tag("bogus"), Space>>,
                 <<Space, Word("hi"), Tag("CURIOUS"), Space>>}

NextDirective ==
    \/ \E response \in Responses : parseAvatarInstructions(response)
    \/ \E t \in timers : PendingFire(t)
    \/ \E t \in timers : ReturnFire(t)
    \/ Tick

SpecDirective == Init /\ [][NextDirective]_vars

NextFailure ==
    \/ SendReact
    \/ SendThink
    \/ FetchFails
    \/ TranscriptionFails
    \/ ClearError
    \/ \E t \in timers : Settled /\ PendingFire(t)
    \/ \E t \in timers : Settled /\ ReturnFire(t)
    \/ Settled /\ Tick

SpecFailure == Init /\ [][NextFailure]_vars

\* Frames: silence, a train of unit impulses and a square wave of a given
\* period (in samples).
SampleRates == {700, 8000, 16000, 22050, 44100, 48000}
FrameLengths == {1, 32, 128}
WavePeriods == {2, 9, 10, 11, 20, 27, 28, 50, 55, 56, 60}
Silence(n) == [i \in 1..n |-> 0]
ImpulseTrain(n, period) == [i \in 1..n |-> IF (i - 1) % period = 0 THEN 1 ELSE 0]
SquareWave(n, period) == [i \in 1..n |-> IF 2 * ((i - 1) % period) < period THEN 1 ELSE -1]
PitchFrames ==
    {<<>>} \cup {Silence(n) : n \in FrameLengths}
           \cup {ImpulseTrain(n, period) : n \in FrameLengths, period \in WavePeriods}
           \cup {SquareWave(n, period) : n \in FrameLengths, period \in WavePeriods}

NextPitchRange ==
    \E audioData \in PitchFrames, sampleRate \in SampleRates :
        ExtractPitch(audioData, sampleRate)

SpecPitchRange == Init /\ [][NextPitchRange]_vars

InputLengths ==
    (1..300) \cup {383, 384, 385, 511, 512, 513, 767, 768, 769, 12287, 12288, 12289,
                   16383, 16384, 16385, 20000, 32768, 40000}

NextFrame == \E n \in InputLengths : AnalyzeAudioFrame(n)

SpecFrame == Init /\ [][NextFrame]_vars

\* The analyses generateSuggestions is called with: analyzeVoice returns the
\* fixed record below when no voice is detected.
VoiceAnalyses ==
    {[isVoiceDetected |-> FALSE, inKey |-> FALSE, harmony |-> "neutral",
      pitchStability |-> 0]}
    \cup [isVoiceDetected : {TRUE}, inKey : BOOLEAN,
          harmony : {"consonant", "dissonant", "neutral"},
          pitchStability : {NaN, 0, 4, 5, 10}]
Chord(root, quality) == [root |-> root, quality |-> quality]
InstrumentAnalyses ==
    [key : {"C", "G"},
     chordProgression :
        {<<>>, <<Chord("C", "maj"), Chord("D", "")>>}
        \cup {<<Chord("C", "maj"), Chord("F", "maj"), last>> :
                last \in {Chord("C", ""), Chord("C#", "min"), Chord("G", "maj"),
                          Chord("A", "min")}}]

NextSuggestions ==
    \E voice \in VoiceAnalyses, instruments \in InstrumentAnalyses :
        GenerateSuggestions(voice, instruments)

SpecSuggestions == Init /\ [][NextSuggestions]_vars

\* One response: the emotions requested while it streams, then the completion
\* marker, early enough for a dwell interval to pass before the clock stops.
StreamRequest ==
    /\ calc.fn = "none"
    /\ \E em \in {"processing", "speaking"} : Request(em, FALSE)
DoneParse ==
    /\ calc.fn = "none"
    /\ now + MIN_EMOTION_DURATION <= MaxTime
    /\ \E response \in Responses : parseAvatarInstructions(response)
DoneTimers ==
    /\ calc.fn # "parseAvatarInstructions"
    /\ \E t \in timers : PendingFire(t) \/ ReturnFire(t)
DoneTick == calc.fn # "parseAvatarInstructions" /\ Tick

NextDone == StreamRequest \/ DoneParse \/ ReactFinished \/ DoneTimers \/ DoneTick

NextVoice ==
    \E isVoiceDetected \in BOOLEAN, pitch \in {0, 1, 2} :
        AnalyzeVoice(isVoiceDetected, pitch)

SpecVoice == Init /\ [][NextVoice]_vars

NextConversation ==
    \E r \in Calls : SendToOpenAI(r) \/ StreamChunk(r) \/ StreamDone(r)

SpecConversation == Init /\ [][NextConversation]_vars

\* The notes from 82 Hz (k = -29) to 784 Hz (k = 10), against chroma vectors
\* with all the energy in one pitch class.
PitchOffsets == -29..10
NextKey ==
    \E k \in PitchOffsets, c \in 0..11 : KeyCheck(k, ChromaOf(c, 10, 0, 0, 0, 0))

SpecKey == Init /\ [][NextKey]_vars

SignalFrames == \E v \in Volumes, pitch \in LoopPitches : AnalysisTick(v, pitch)
SignalTimers == \E x \in chat.timers, throws \in BOOLEAN : SilenceFire(x, throws)

NextBoundary ==
    \/ StartRecording
    \/ SignalFrames
    \/ GoQuiet
    \/ SignalTimers
    \/ RecorderStopped
    \/ ProcessDone
    \/ SignalTick

\* The processor keeps analysing frames, due timers and queued recorder events
\* run, the clock advances.
SpecBoundary ==
    /\ Init /\ [][NextBoundary]_vars
    /\ WF_vars(SignalFrames) /\ WF_vars(SignalTimers) /\ WF_vars(RecorderStopped)
    /\ WF_vars(SignalTick)

\* The task of the completion marker runs to its end, due timers fire and the
\* clock advances.
SpecDone ==
    /\ Init /\ [][NextDone]_vars
    /\ WF_vars(ReactFinished) /\ WF_vars(DoneTimers) /\ WF_vars(DoneTick)

----------------------------------------------------------------------------
(* Claims about the emotion machine, checked under SpecEmotion *)

PendingTimers == {t \in timers : t.kind = "pending"}
ReturnTimers == {t \in timers : t.kind = "return"}

\* C1: as long as no outside caller has passed force = true, every change of
\* the current emotion, whether made by a request, by the pending-fire callback
\* or by the auto-return callback, comes at least MIN_EMOTION_DURATION after the
\* previous change.
C1_AntiFlicker ==
    [][(emotion' # emotion /\ ~extForceUsed')
        => (lastVisibleChange = 0
            \/ now' - lastVisibleChange >= MIN_EMOTION_DURATION)]_vars

\* A pending-fire callback changed the emotion one dwell after the previous
\* change, with no forced call from outside.
C1_Witness ==
    /\ ~extForceUsed
    /\ eop.name = "PendingFire"
    /\ emotion = eop.em
    /\ lastVisibleChange = now
    /\ eop.since >= MIN_EMOTION_DURATION

\* C2: while unforced requests are deferred inside the dwell window, the pending
\* slot holds the latest of them and exactly one pending-fire timer is
\* outstanding, for that candidate, due when the window elapses; when the
\* pending-fire callback runs it applies that latest candidate, not an earlier
\* one, no earlier than the end of the window, and empties the slot.
C2_LastWriteWins ==
    /\ [](deferred.last # NULL =>
            /\ pendingEmotion = deferred.last
            /\ Cardinality(PendingTimers) = 1
            /\ \A t \in PendingTimers :
                  /\ t.emotion = deferred.last
                  /\ t.id = emotionTimeout
                  /\ t.due = lastEmotionChange + MIN_EMOTION_DURATION
                  /\ now - TickMs < t.due)
    /\ [][eop'.name = "PendingFire" =>
            /\ deferred.last # NULL
            /\ emotion' = deferred.last
            /\ lastEmotionChange' = now
            /\ now >= lastEmotionChange + MIN_EMOTION_DURATION
            /\ pendingEmotion' = NULL
            /\ PendingTimers' = {}]_vars

\* Two different candidates were deferred in one window and the pending-fire
\* callback applied the second.
C2_Witness ==
    /\ eop.name = "PendingFire"
    /\ eop.first # NULL
    /\ eop.first # eop.em
    /\ emotion = eop.em
    /\ lastEmotionChange = now

\* What an applied setEmotion(em) leaves behind at time `at`.
AppliedNow(em, at) ==
    /\ emotion' = em
    /\ lastEmotionChange' = at
    /\ pendingEmotion' = NULL
    /\ PendingTimers' = {}
    /\ Cardinality(timers') <= 1
    /\ \A t \in timers' : t.id = emotionTimeout' /\ t.due = at + MIN_EMOTION_DURATION

\* C4: a forced call applies at once whatever the elapsed time; an unforced call
\* for another emotion applies at once exactly when the dwell has elapsed or no
\* transition ever happened; applying sets the emotion, records the time, empties
\* the pending slot and leaves no timer but the return it schedules itself.
C4_ImmediateApplication ==
    [][eop'.name = "Request" =>
        LET em == eop'.em
            elapsed == now - lastEmotionChange
            free == elapsed >= MIN_EMOTION_DURATION \/ lastEmotionChange = 0
        IN  /\ eop'.force => AppliedNow(em, now)
            /\ (~eop'.force /\ em # emotion /\ free) => AppliedNow(em, now)
            /\ (~eop'.force /\ em # emotion /\ ~free) =>
                    /\ emotion' = emotion
                    /\ lastEmotionChange' = lastEmotionChange
                    /\ pendingEmotion' = em]_vars

\* A forced call changed the emotion inside the dwell window of the last change.
C4_Witness ==
    /\ eop.name = "Request" /\ eop.force
    /\ eop.since > 0 /\ eop.since < MIN_EMOTION_DURATION
    /\ emotion = eop.em
    /\ lastVisibleChange = now
    /\ lastEmotionChange = now

\* C5: an emotion other than 'listening' and 'neutral' with an empty pending slot
\* has its return timer outstanding, due one dwell after the transition; when it
\* runs the emotion becomes 'listening' if isRecording is true then and 'neutral'
\* otherwise; 'listening' and 'neutral' have no return timer.
C5_AutoReturn ==
    /\ []((NeedsReturn(emotion) /\ pendingEmotion = NULL) =>
            \E t \in ReturnTimers :
                /\ t.id = emotionTimeout
                /\ t.due = lastEmotionChange + MIN_EMOTION_DURATION
                /\ now - TickMs < t.due)
    /\ [](~NeedsReturn(emotion) => ReturnTimers = {})
    /\ [][eop'.name = "ReturnFire" =>
            /\ emotion' = (IF isRecording THEN "listening" ELSE "neutral")
            /\ now >= lastEmotionChange + MIN_EMOTION_DURATION
            /\ timers' = {}]_vars

\* A return fired while recording although it was scheduled while not recording.
C5_Witness ==
    /\ eop.name = "ReturnFire"
    /\ ~eop.rec
    /\ isRecording
    /\ emotion = "listening"
    /\ lastEmotionChange = now

\* The session is torn down: recording stopped, component and hooks unmounted.
tornDown == ~mounted /\ ~isRecording

\* C6: once the session is torn down no emotion timer remains scheduled and no
\* callback changes the emotion state.
C6_TeardownCancelsTimers ==
    /\ [](tornDown => timers = {})
    /\ [][tornDown => UNCHANGED <<emotion, lastEmotionChange, pendingEmotion>>]_vars

----------------------------------------------------------------------------
(* The voice-activity gate of the chat component *)

\* Every recorder that was started is recording, has its stop event queued, or
\* has been handed off or dropped: one boundary for each segment.
OneBoundaryPerSegment ==
    chat.recorderCount =
        ghist.delivered + ghist.dropped + Len(chat.stopEvents)
        + (IF chat.mediaRecorderRef.state = "recording" THEN 1 ELSE 0)

\* C3: a segment that goes quiet gets exactly one utterance boundary: a low
\* sample while the recorder runs leaves a silence timer due within the silence
\* timeout, the timer stops the recorder no earlier than one full timeout after
\* the last above-threshold sample, every started recorder accounts for exactly
\* one stop, and an above-threshold sample that arrives while the timer is
\* pending cancels it.
C3_VoiceGate ==
    /\ []OneBoundaryPerSegment
    /\ [][(gop'.name = "Sample" /\ gop'.v <= voiceThreshold
             /\ chat.mediaRecorderRef.state = "recording") =>
            /\ GateCoolingDown(chat')
            /\ \A x \in chat'.timers : x.due <= now + SILENCE_MS]_vars
    /\ [][(gop'.name = "SilenceFire" /\ ghist'.boundaries > ghist.boundaries) =>
            /\ now - ghist.lastHigh >= SILENCE_MS
            /\ ghist'.boundaries = ghist.boundaries + 1
            /\ chat'.mediaRecorderRef.state = "inactive"
            /\ Len(chat'.stopEvents) = 1]_vars
    /\ [][(gop'.name = "Sample" /\ gop'.v > voiceThreshold /\ GateCoolingDown(chat)) =>
            /\ chat'.timers = {}
            /\ chat'.silenceTimerRef = NoTimer
            /\ ghist'.boundaries = ghist.boundaries]_vars

\* The silence timer has just stopped the first segment's recorder, a full
\* timeout after voice was last seen.
C3_Witness ==
    /\ gop.name = "SilenceFire"
    /\ ghist.boundaries = 1
    /\ ghist.lastHigh > 0
    /\ now - ghist.lastHigh >= SILENCE_MS
    /\ chat.mediaRecorderRef.state = "inactive"
    /\ Len(chat.stopEvents) = 1

\* C8: when voice returns while the silence timer is pending, the timer is
\* cancelled and the gate is Active again on the same recorder: no recorder is
\* created, the chunk buffer is not reset, nothing is stopped, and the segment
\* handed off at the eventual boundary is the one recording that began before
\* the pause.
C8_ResumeFromCoolingDown ==
    /\ [][(gop'.name = "Sample" /\ gop'.v > voiceThreshold /\ GateCoolingDown(chat)) =>
            GateActive(chat')]_vars
    /\ [][(GateCoolingDown(chat) /\ GateActive(chat')) =>
            /\ chat'.mediaRecorderRef = chat.mediaRecorderRef
            /\ chat'.recorderCount = chat.recorderCount
            /\ chat'.recordingChunksRef = chat.recordingChunksRef
            /\ chat'.stopEvents = chat.stopEvents
            /\ chat'.isRecordingVoiceRef
            /\ chat'.silenceTimerRef = NoTimer
            /\ chat'.timers = {}]_vars
    /\ [][(gop'.handoff /\ gop'.resumedAt > 0) =>
            /\ Len(gop'.segment) = 1
            /\ gop'.segment[1].rec = chat.mediaRecorderRef.id
            /\ gop'.segment[1].from = chat.mediaRecorderRef.from
            /\ gop'.segment[1].from <= gop'.resumedAt]_vars

\* A segment that was paused and resumed has been handed off in one piece.
C8_Witness ==
    /\ gop.name = "RecorderStopped"
    /\ gop.handoff
    /\ gop.resumedAt > 0
    /\ Len(gop.segment) = 1
    /\ gop.segment[1].from < gop.resumedAt

----------------------------------------------------------------------------
(* The in-flight guard of the two gates *)

\* The chat component starts no recorder while a segment is being processed.
ChatGateGuard ==
    /\ [](chat.inFlight <= 1)
    /\ [][chat'.recorderCount > chat.recorderCount =>
            chat'.inFlight = 0 /\ chat'.stopEvents = <<>>]_vars

\* The realtime store starts no recording while a segment is being processed.
StoreGateGuard ==
    /\ [](rs.inFlight <= 1)
    /\ [][rs'.segments > rs.segments => rs'.inFlight = 0]_vars

\* C7: neither gate starts a new segment while the processing of an earlier
\* segment is in flight, so at most one segment is being processed at a time.
C7_InFlightGuard == ChatGateGuard /\ StoreGateGuard

----------------------------------------------------------------------------
(* The pitch stabiliser *)

\* The last n elements of a sequence, in order.
LastN(sq, n) == IF Len(sq) <= n THEN sq ELSE SubSeq(sq, Len(sq) - n + 1, Len(sq))

C10_PitchWindow ==
    /\ [](/\ Len(proc.pitchHistory) <= PITCH_WINDOW
          /\ \A i \in 1..Len(proc.pitchHistory) : proc.pitchHistory[i] > 0
          /\ proc.pitchHistory = LastN(phist.arrivals, PITCH_WINDOW))
    /\ [][((phist'.name = "tick" /\ phist'.pitch = 0) \/ phist'.name = "stop") =>
            /\ proc'.pitchHistory = <<>>
            /\ proc'.lastStablePitch = 0]_vars

\* More than five estimates have arrived since the reset and the window has
\* moved on from the first of them.
C10_Witness ==
    /\ Len(phist.arrivals) = PITCH_WINDOW + 2
    /\ Len(proc.pitchHistory) = PITCH_WINDOW
    /\ proc.pitchHistory[1] = phist.arrivals[3]
    /\ proc.pitchHistory[1] # phist.arrivals[1]
    /\ proc.pitchHistory[PITCH_WINDOW] = phist.arrivals[PITCH_WINDOW + 2]

----------------------------------------------------------------------------
(* The analysis loop *)

C12_TickCadence ==
    /\ [](loop.frames <= 1 /\ (proc.isProcessing <=> loop.frames = 1))
    /\ [][lhist'.ticked =>
            (lhist.lastTickAt = 0 \/ now - lhist.lastTickAt >= UPDATE_INTERVAL_MS)]_vars
    /\ [][(lhist'.name = "frame" /\ ~lhist'.ticked) =>
            /\ proc' = proc
            /\ lhist'.featuresCalls = 0 /\ lhist'.analysisCalls = 0
            /\ loop' = loop]_vars

\* A tick a full interval after the previous one, with a frame in between that
\* came too early.
C12_Witness ==
    /\ lhist.name = "frame" /\ lhist.ticked
    /\ lhist.gap >= UPDATE_INTERVAL_MS
    /\ lhist.afterEarly

\* C13: a tick on which feature extraction yields nothing calls neither
\* callback, leaves the pitch window and the last stable pitch as they were,
\* and the loop goes on: it is still processing and the next frame is requested.
C13_SkippedTick ==
    [][(lhist'.ticked /\ lhist'.feat = "null") =>
        /\ lhist'.featuresCalls = 0 /\ lhist'.analysisCalls = 0
        /\ proc'.pitchHistory = proc.pitchHistory
        /\ proc'.lastStablePitch = proc.lastStablePitch
        /\ proc'.isProcessing
        /\ loop'.frames = 1]_vars

\* A tick without features has gone by while the window held estimates.
C13_Witness ==
    /\ lhist.name = "frame" /\ lhist.ticked /\ lhist.feat = "null"
    /\ Len(proc.pitchHistory) >= 2
    /\ proc.lastStablePitch > 0
    /\ loop.frames = 1

----------------------------------------------------------------------------
(* Routing of a segment *)

\* C14: a segment whose features satisfy the voice heuristic and the music
\* sub-conditions, with a music confidence above the routing threshold, goes to
\* the music path; the speech path is taken only when the music confidence is
\* not above the threshold.
C14_MusicPriority ==
    (calc.fn = "route" /\ calc.extracted) =>
        LET musical == /\ hasMusicalSpectrum(calc.f) /\ hasMusicalEnergy(calc.f)
                       /\ hasMusicalComplexity(calc.f)
                       /\ musicConfidence(calc.f) > 2
            voiced == voiceRange(calc.f) /\ voiceZCR(calc.f) /\ hasEnergy(calc.f)
        IN  /\ (voiced /\ musical) => calc.path = "music"
            /\ (calc.path = "speech") => ~musical

----------------------------------------------------------------------------
(* The music companion *)

\* Some instrument other than the fallback 'unknown' was detected.
InstrumentDetected(instruments) ==
    \E i \in 1..Len(instruments) : instruments[i] # "unknown"

\* C15: the music type is 'mixed' exactly when voice and at least one
\* instrument are detected, 'vocal' exactly when voice is detected and the
\* instruments are only the fallback 'unknown', and 'instrumental' exactly when
\* no voice is detected.
C15_MusicType ==
    (calc.fn = "performance") =>
        /\ (calc.musicType = "mixed") <=>
               (calc.isVoiceDetected /\ InstrumentDetected(calc.instruments))
        /\ (calc.musicType = "vocal") <=>
               (calc.isVoiceDetected /\ ~InstrumentDetected(calc.instruments))
        /\ (calc.musicType = "instrumental") <=> ~calc.isVoiceDetected

\* C16: for a 12-bin chroma vector whose strongest bin (the first of them)
\* reaches the threshold, detectChords names the root with 'maj' when the bins
\* four and seven semitones up both exceed the threshold, else with 'min' when
\* the bins three and seven semitones up do, else the root alone; it returns
\* nothing when the strongest bin is below the threshold or the vector does not
\* have 12 bins.  C-E-G at full energy gives Cmaj; C alone over a 0.1 floor
\* gives C.
C16_ChordDetection ==
    (calc.fn = "chords") =>
        LET ch == calc.chroma
            out == calc.chords
        IN  /\ Len(ch) # 12 => out = <<>>
            /\ Len(ch) = 12 =>
                 LET root == CHOOSE i \in 1..12 :
                                 /\ \A j \in 1..12 : ch[j] <= ch[i]
                                 /\ \A j \in 1..(i - 1) : ch[j] < ch[i]
                     up(k) == ch[((root - 1 + k) % 12) + 1]
                 IN  out = IF ch[root] < chordThreshold THEN <<>>
                           ELSE IF up(4) > chordThreshold /\ up(7) > chordThreshold
                           THEN <<notes[root] \o "maj">>
                           ELSE IF up(3) > chordThreshold /\ up(7) > chordThreshold
                           THEN <<notes[root] \o "min">>
                           ELSE <<notes[root]>>
            /\ ch = ChromaOf(0, 10, 0, 10, 10, 0) => out = <<"Cmaj">>
            /\ ch = ChromaOf(0, 10, 1, 1, 1, 1) => out = <<"C">>

\* The C major triad has been recognised.
C16_Witness ==
    /\ calc.fn = "chords"
    /\ calc.chroma = ChromaOf(0, 10, 0, 10, 10, 0)
    /\ calc.chords = <<"Cmaj">>

----------------------------------------------------------------------------
(* Claims about the embedded emotion directive, checked under SpecDirective *)

HasTag(text) == \E i \in 1..Len(text) : IsTag(text[i])

\* C17: when a finished response matches the tag pattern, the tag text is
\* removed from the assistant message shown in the conversation whether or not
\* the name is a recognised emotion, and an unrecognised name causes no emotion
\* request and no change of the emotion state.
C17_DirectiveStripping ==
    [][(eop'.name = "parseAvatarInstructions" /\ HasTag(calc'.response))
        => /\ ~HasTag(calc'.content)
           /\ (toLowerCase(calc'.response[avatarMatch(calc'.response)].v)
                    \notin validEmotions)
                => (calc'.requested = NULL /\ UNCHANGED evars)]_vars

----------------------------------------------------------------------------
(* Claims about a failing collaborator, checked under SpecFailure *)

FailureStep == eop'.name \in {"showConcern", "processAudioBlob"}

\* C18: when the chat-completion or the transcription call fails, the error
\* field is set and the emotion is 'concerned' at once, the transition being
\* applied at the time of the failure however recently the emotion last
\* changed; the call in progress is over, so that a later segment is processed.
C18_CollaboratorFailure ==
    [][FailureStep
        => /\ calc'.error # NULL
           /\ emotion' = "concerned"
           /\ lastEmotionChange' = now
           /\ calc'.pc = "idle"]_vars

----------------------------------------------------------------------------
(* Claims about the pitch estimate of the companion, checked under           *)
(* SpecPitchRange                                                            *)

\* C19: the pitch estimate is 0, or sampleRate / period for a lag period with
\* sampleRate / 800 <= period <= sampleRate / 80: a frequency in 80..800 Hz.
C19_PitchRange ==
    calc.fn = "extractPitch"
        => \/ calc.pitch.num = 0
           \/ /\ calc.pitch.num = calc.sampleRate
              /\ 800 * calc.pitch.den >= calc.sampleRate
              /\ 80 * calc.pitch.den <= calc.sampleRate

----------------------------------------------------------------------------
(* Claims about the frame handed to feature extraction, checked under        *)
(* SpecFrame                                                                 *)

Distance(a, b) == IF a >= b THEN a - b ELSE b - a

\* C20: for a non-empty input of n samples the frame has a length p that is a
\* power of two, p <= 16384, no power of two is nearer to min(n, 16384) than
\* p, and every sample index read while resizing lies inside the buffer read.
C20_FrameSizing ==
    (calc.fn = "analyzeAudio" /\ calc.n > 0)
        => LET m == IF calc.n > 16384 THEN 16384 ELSE calc.n
           IN  /\ IsPowerOfTwo(calc.frame)
               /\ calc.frame <= 16384
               /\ \A k \in 0..15 : Distance(m, calc.frame) <= Distance(m, 2 ^ k)
               /\ calc.inside

\* An input that is not a power of two and is nearer to the power of two below
\* it: the frame is shorter than the input, which is downsampled.
C20_Witness ==
    /\ calc.fn = "analyzeAudio"
    /\ ~IsPowerOfTwo(calc.n) /\ calc.n < MAX_BUFFER_SIZE
    /\ calc.frame < calc.n

----------------------------------------------------------------------------
(* Claims about the content classifier, checked under SpecRouting *)

\* C21: for every feature vector with rms = 0, whatever the other feature
\* values, the classifier reports no voice, no singing and no music.
C21_Silence ==
    (calc.fn = "route" /\ calc.extracted /\ calc.f.rms = 0)
        => (~calc.qa.isVoice /\ ~calc.qa.isSinging /\ ~calc.qa.isMusicDetected)

\* A silent frame whose other features are those of a voice and of music.
C21_Witness ==
    /\ calc.fn = "route" /\ calc.extracted /\ calc.f.rms = 0
    /\ voiceRange(calc.f) /\ voiceZCR(calc.f)
    /\ hasMusicalSpectrum(calc.f) /\ hasMusicalComplexity(calc.f)

----------------------------------------------------------------------------
(* Claims about the suggestions, checked under SpecSuggestions *)

Has(list, x) == \E i \in 1..Len(list) : list[i] = x

\* The place of a suggestion in the fixed order of the rules.
RuleRank(x, key) ==
    CASE x = KeySuggestion(key) -> 1
      [] x = DissonanceSuggestion -> 2
      [] x = StabilitySuggestion -> 3
      [] x = ResolveSuggestion(key) -> 4
      [] OTHER -> 5

\* C22: the suggestion list is never empty; it holds the fired rules in their
\* fixed order, or the generic encouragement alone when no rule fires; the
\* 'sing in the detected key' suggestion is present exactly when a voice is
\* detected and is not in key.
C22_Suggestions ==
    calc.fn = "generateSuggestions"
        => LET list == calc.suggestions
               v == calc.voice
               key == calc.instruments.key
               prog == calc.instruments.chordProgression
               dissonant == v.isVoiceDetected /\ v.harmony = "dissonant"
               unstable == v.isVoiceDetected /\ v.pitchStability \in {0, 4}
               unresolved == Len(prog) > 2 /\ prog[Len(prog)].root \notin {key, key \o "#"}
               offKey == v.isVoiceDetected /\ ~v.inKey
           IN  /\ Len(list) > 0
               /\ \A i, j \in 1..Len(list) :
                     i < j => RuleRank(list[i], key) < RuleRank(list[j], key)
               /\ Has(list, KeySuggestion(key)) <=> offKey
               /\ Has(list, DissonanceSuggestion) <=> dissonant
               /\ Has(list, StabilitySuggestion) <=> unstable
               /\ Has(list, ResolveSuggestion(key)) <=> unresolved
               /\ Has(list, GenericSuggestion)
                     <=> ~(offKey \/ dissonant \/ unstable \/ unresolved)

\* An in-key voice for which other rules fire.
C22_Witness ==
    /\ calc.fn = "generateSuggestions"
    /\ calc.voice.isVoiceDetected /\ calc.voice.inKey
    /\ Len(calc.suggestions) = 3

----------------------------------------------------------------------------
(* More claims about the emotion machine, checked under SpecEmotion *)

\* C23: an unforced request whose candidate equals the current emotion changes
\* nothing: the emotion, the time of the last change, the pending slot and the
\* scheduled pending-fire or auto-return timer stay exactly as they were.
C23_SameCandidateNoOp ==
    [][(eop'.name = "Request" /\ ~eop'.force /\ eop'.em = emotion)
        => UNCHANGED <<emotion, lastEmotionChange, pendingEmotion, emotionTimeout,
                       timers>>]_vars

\* The current emotion was requested again, unforced, while another candidate
\* was pending with its timer outstanding.
C23_Witness ==
    /\ eop.name = "Request" /\ ~eop.force /\ eop.em = emotion
    /\ pendingEmotion # NULL /\ PendingTimers # {}

----------------------------------------------------------------------------
(* Claims about the routing of the directive, checked under SpecDone *)

\* C24: when a response finishes carrying a recognised directive, the current
\* emotion eventually becomes the emotion it names, no other emotion being
\* requested after the response finished; the 'finished' reaction issued right
\* after the directive does not discard it.
C24_DirectiveRouting ==
    \A name \in {"excited", "curious"} :
        (calc.fn = "parseAvatarInstructions" /\ calc.requested = name)
            ~> (emotion = name)

----------------------------------------------------------------------------
(* Claims about the processor and the gate together, checked under           *)
(* SpecBoundary                                                              *)

\* C25: while the session is recording and the gate is Active, if the input
\* volume stays below the activation threshold from some tick on, the
\* recording segment is eventually closed by an utterance boundary, for every
\* input signal, including one whose pitch estimate stays non-zero and steady.
C25_BoundaryLiveness ==
    (calc.fn = "signal" /\ calc.quiet /\ calc.quietAt = now
        /\ isRecording /\ GateActive(chat))
        ~> (chat.mediaRecorderRef.state # "recording")

----------------------------------------------------------------------------
(* Claims about the pitch stability, checked under SpecVoice *)

\* C26: after any sequence of analyzePerformance calls pitchStability is a
\* defined number in [0, 1]: its computation never divides by a zero mean and
\* never yields NaN.
C26_PitchStabilityDefined ==
    calc.fn = "analyzeVoice"
        => (calc.pitchStability # NaN /\ calc.pitchStability \in 0..100)

----------------------------------------------------------------------------
(* Claims about the conversation, checked under SpecConversation *)

\* The messages that hold a chunk of call r.
HoldersOf(conversation, r) ==
    {i \in 1..Len(conversation) :
        /\ conversation[i].role = "assistant"
        /\ \E k \in 1..Len(conversation[i].content) : conversation[i].content[k][1] = r}

\* C27: for every interleaving of overlapping chat requests, all chunks of one
\* response are in one and the same assistant message, and once every response
\* has finished no message of the conversation is still marked isStreaming.
C27_StreamingConversation ==
    calc.fn = "conversation"
        => /\ \A r \in Calls : Cardinality(HoldersOf(calc.conversation, r)) <= 1
           /\ (\A r \in Calls : calc.pc[r] = "finished")
                => \A i \in 1..Len(calc.conversation) : ~calc.conversation[i].isStreaming

----------------------------------------------------------------------------
(* More claims about the chat gate, checked under SpecChatGate *)

\* C28: stop is invoked only on a recorder that is currently recording: neither
\* the silence timer, nor the Stop button, nor the unmount cleanup calls stop
\* on a recorder that was already stopped, in particular not while the stopped
\* segment is still being processed.
C28_RecorderStopSafety == ~ghist.badStop

----------------------------------------------------------------------------
(* The timers of the emotion machine, checked under SpecEmotion *)

\* C29: in every reachable state at most one emotion timer (pending-fire or
\* auto-return) is outstanding, pendingEmotion is non-null exactly when that
\* timer is a pending-fire timer for that same emotion, and a non-null
\* pendingEmotion never equals the current emotion.
C29_TimerPendingInvariant ==
    /\ Cardinality(timers) <= 1
    /\ (pendingEmotion # NULL)
          <=> (\E t \in timers : t.kind = "pending" /\ t.emotion = pendingEmotion)
    /\ (pendingEmotion # NULL) => pendingEmotion # emotion

\* A second candidate was deferred in place of the first: its timer is the only
\* one outstanding.
C29_Witness ==
    /\ pendingEmotion # NULL
    /\ deferred.first # NULL /\ deferred.first # deferred.last
    /\ pendingEmotion = deferred.last
    /\ Cardinality(PendingTimers) = 1

----------------------------------------------------------------------------
(* Claims about the pitch class, checked under SpecKey *)

\* C30: for every detected pitch above 0 Hz, including the pitches below
\* 440 Hz, the chroma index computed for the in-key and harmony checks lies in
\* 0..11 and is the true pitch class of the pitch (440 Hz is 9 = A, 261.6 Hz is
\* 0 = C); the checks never read outside the 12-bin chroma vector.
C30_PitchClassIndex ==
    calc.fn = "isVoiceInKey"
        => /\ calc.index \in 0..11
           /\ calc.index = (calc.k + 9) % 12
           /\ calc.reads \subseteq 0..11

====
